---- MODULE Spec2Model ----
(***************************************************************************)
(* A model of the woodchuck client layer (src/src/woodchuck.py and         *)
(* src/src/pywoodchuck.py): the per-kind proxy factories and their         *)
(* registries, the property cache of _BaseObject, the entity hierarchy     *)
(* (register / list / lookup by cookie), the reference counted feedback    *)
(* subscription of a manager, PyWoodchuck's behaviour when the service is  *)
(* absent, unregistration, the rebinding proxy and the translation of      *)
(* faults, the receiver of upcalls, and the thread guard.                  *)
(*                                                                         *)
(* The org.woodchuck service itself is not part of the client layer; the   *)
(* part of it the client depends on (UUID allocation, the cookie           *)
(* uniqueness gate, property storage, subscriptions) is described by the   *)
(* Srv* definitions.                                                       *)
(***************************************************************************)
EXTENDS Integers, Sequences, FiniteSets, TLC

VARIABLES
    now,                          \* time.time(), in units of _ttl
    owner,                        \* TRUE iff org.woodchuck currently has an owner
    remote,                       \* the service's entities: UUID -> record
    nextUUID,                     \* the next UUID the service hands out
    proxies,                      \* the local proxy instances, in construction order
    _managers,                    \* woodchuck._managers: UUID -> proxy
    _streams,                     \* woodchuck._streams:  UUID -> proxy
    _objects,                     \* woodchuck._objects:  UUID -> proxy
    result,                       \* what the last call returned or raised
    subscriptions,                \* the service's active subscriptions
    nextHandle,                   \* the next handle the service hands out
    log,                          \* the feedback calls made so far
    _main_thread,                 \* woodchuck._main_thread, 0 for None
    pyw,                          \* what PyWoodchuck.__init__ did
    manager,                      \* PyWoodchuck.manager: a proxy, 0 for None
    _pystreams,                   \* PyWoodchuck._streams: identifier -> proxy
    _pyobjects,                   \* _Stream._objects of each stream of _pystreams
    _singletons,                  \* _Object._singletons: identifier -> live instance
    busNames,                     \* the unique names the bus has given to owners of org.woodchuck
    real_object,                  \* DBusIndirectObject.real_object: the name it is bound to
    _woodchuck_owner,             \* woodchuck._woodchuck_owner: a name, 0 for "", -1 for None
    exported,                     \* TRUE iff an Upcalls instance is exported on the bus
    signals,                      \* owner notifications the main loop has yet to deliver
    pc,                           \* where each thread is in _check_main_thread's wrapper
    ran,                          \* the threads that have executed a guarded body
    running,                      \* Job.running of apt-woodchuck: a job, 0 for None
    jobs,                         \* Job.jobs: the queued jobs
    keys,                         \* the key of each job created, in order of creation
    jpc,                          \* where the main thread (0) and the thread of each job are
    started                       \* the jobs whose start () was called, in order

llVars == <<now, owner, remote, nextUUID, proxies, _managers, _streams, _objects,
            result>>
subVars == <<subscriptions, nextHandle, log>>
pyVars == <<_main_thread, pyw, manager, _pystreams, _pyobjects,
            _singletons>>
busVars == <<busNames, real_object>>
upVars == <<_woodchuck_owner, exported, signals>>
jobVars == <<running, jobs, keys, jpc, started>>
thrVars == <<pc, ran, jobVars>>
extVars == <<busVars, upVars, thrVars>>
vars == <<llVars, subVars, pyVars, extVars>>

\* The unique bus name of the owner of org.woodchuck: the latest the bus gave
\* out, or 0 when the name has no owner.
service == IF owner THEN busNames ELSE 0

-----------------------------------------------------------------------------
(* Bounds of the model. *)

MaxUUID == 3
MaxProxies == 5
MaxTime == 2
MaxLog == 4
MaxNames == 3
MaxSignals == 2
MaxThreads == 3
MaxEntities == 4
MaxJobs == 3

Cookies == {"a", "b"}
Threads == {1, 2}
Callers == 1..MaxThreads
None == -1
Priorities == {0, 1}
Root == 0

-----------------------------------------------------------------------------
(* Property tables. *)

\* The default amount of time to cache values.
_ttl == 1

\* A TTL is a number of time units or float("inf").
Finite(t) == [inf |-> FALSE, t |-> t]
Infinite == [inf |-> TRUE, t |-> 0]

\* name -> TTL (the fourth component of each table entry).  The three
\* tables agree on the properties modelled here.
property_map ==
    [UUID                |-> Infinite,
     parent_UUID         |-> Infinite,
     human_readable_name |-> Finite(_ttl),
     cookie              |-> Finite(_ttl),
     priority            |-> Finite(_ttl)]

PropNames == DOMAIN property_map

-----------------------------------------------------------------------------
(* The remote service.  Its entity table rem maps each registered UUID to  *)
(* [kind, parent, cookie, name, priority].                                 *)

SrvChildren(rem, kind, parent) ==
    {u \in DOMAIN rem : rem[u].kind = kind /\ rem[u].parent = parent}

SrvByCookie(rem, kind, parent, cookie) ==
    {u \in SrvChildren(rem, kind, parent) : rem[u].cookie = cookie}

RECURSIVE SortedSeq(_)
SortedSeq(S) ==
    IF S = {} THEN <<>>
    ELSE LET m == CHOOSE x \in S : \A y \in S : x <= y
         IN  <<m>> \o SortedSeq(S \ {m})

\* The value the service stores for a property of entity u.
SrvGet(rem, u, name) ==
    CASE name = "UUID"                -> u
      [] name = "parent_UUID"         -> rem[u].parent
      [] name = "cookie"              -> rem[u].cookie
      [] name = "human_readable_name" -> rem[u].name
      [] name = "priority"            -> rem[u].priority

SrvSet(rem, u, name, value) ==
    [rem EXCEPT ![u] = CASE name = "cookie" -> [@ EXCEPT !.cookie = value]
                         [] name = "human_readable_name"
                                            -> [@ EXCEPT !.name = value]
                         [] name = "priority" -> [@ EXCEPT !.priority = value]]

SrvAdd(rem, u, kind, parent, cookie, name) ==
    [v \in DOMAIN rem \cup {u} |->
        IF v = u
        THEN [kind |-> kind, parent |-> parent, cookie |-> cookie,
              name |-> name, priority |-> 0]
        ELSE rem[v]]

-----------------------------------------------------------------------------
(* Replies of the remote service, as the transport delivers them. *)

\* A fault name is the sequence of its dot-separated components; the empty
\* sequence is the name of a fault that carries none.
Wc(leaf) == <<"org", "woodchuck", leaf>>
Bus(leaf) == <<"org", "freedesktop", "DBus", "Error", leaf>>
NoName == <<>>

Fault(dbus_name) == [ok |-> FALSE, dbus_name |-> dbus_name, val |-> 0]
Value(v) == [ok |-> TRUE, dbus_name |-> NoName, val |-> v]

\* A call on object path u: no owner, no such object, or the service's reply.
Reply(rem, u, r) ==
    IF ~owner THEN Fault(Bus("ServiceUnknown"))
    ELSE IF u # Root /\ u \notin DOMAIN rem
    THEN Fault(Bus("UnknownMethod"))
    ELSE r

\* ManagerRegister / StreamRegister / ObjectRegister.
SrvRegister(rem, nxt, kind, parent, cookie, only_if_cookie_unique) ==
    IF only_if_cookie_unique /\ SrvByCookie(rem, kind, parent, cookie) # {}
    THEN Fault(Wc("ObjectExists"))
    ELSE Value(nxt)

\* dbus_name.startswith("org.woodchuck.")
InNamespace(dbus_name) ==
    Len(dbus_name) >= 3 /\ dbus_name[1] = "org" /\ dbus_name[2] = "woodchuck"

\* What the translator raises: a new exception of class exc, or (exc =
\* "DBusException") the fault it was given, whose name is in fault.
Raise(exc) == [exc |-> exc, fault |-> NoName]
Reraise(dbus_name) == [exc |-> "DBusException", fault |-> dbus_name]

\* The translator without its ObjectExists case.
Translate_NoObjectExists(dbus_name) ==
    IF dbus_name = Wc("GenericError") THEN Raise("GenericError")
    ELSE IF InNamespace(dbus_name) THEN Raise("UnknownError")
    ELSE IF dbus_name = Bus("ServiceUnknown") \/ dbus_name = Bus("NoReply")
         THEN Raise("WoodchuckUnavailableError")
    ELSE Reraise(dbus_name)

\* The translator testing the namespace prefix before the exact names.
Translate_PrefixFirst(dbus_name) ==
    IF InNamespace(dbus_name) THEN Raise("UnknownError")
    ELSE IF dbus_name = Bus("ServiceUnknown") \/ dbus_name = Bus("NoReply")
         THEN Raise("WoodchuckUnavailableError")
    ELSE Reraise(dbus_name)

\* The translator wrapping what it does not know instead of re-raising it.
Translate_WrapOther(dbus_name) ==
    IF dbus_name = Wc("GenericError") THEN Raise("GenericError")
    ELSE IF dbus_name = Wc("ObjectExists") THEN Raise("ObjectExistsError")
    ELSE IF dbus_name = Wc("MethodNotImplemented")
         THEN Raise("NotImplementedError")
    ELSE IF dbus_name = Wc("InternalError") THEN Raise("InternalError")
    ELSE IF dbus_name = Wc("InvalidArgs") THEN Raise("InvalidArgsError")
    ELSE IF InNamespace(dbus_name) THEN Raise("UnknownError")
    ELSE IF dbus_name = Bus("ServiceUnknown") \/ dbus_name = Bus("NoReply")
         THEN Raise("WoodchuckUnavailableError")
    ELSE Raise("UnknownError")

\* _dbus_exception_to_woodchuck_exception: fault name -> exception raised.
_dbus_exception_to_woodchuck_exception(dbus_name) ==
    IF dbus_name = Wc("GenericError") THEN Raise("GenericError")
    ELSE IF dbus_name = Wc("ObjectExists") THEN Raise("ObjectExistsError")
    ELSE IF dbus_name = Wc("MethodNotImplemented")
         THEN Raise("NotImplementedError")
    ELSE IF dbus_name = Wc("InternalError") THEN Raise("InternalError")
    ELSE IF dbus_name = Wc("InvalidArgs") THEN Raise("InvalidArgsError")
    ELSE IF InNamespace(dbus_name) THEN Raise("UnknownError")
    ELSE IF dbus_name = Bus("ServiceUnknown") \/ dbus_name = Bus("NoReply")
         THEN Raise("WoodchuckUnavailableError")
    ELSE Reraise(dbus_name)

Raised(r) == _dbus_exception_to_woodchuck_exception(r.dbus_name).exc

-----------------------------------------------------------------------------
(* Proxies and the per-kind factories. *)

\* _BaseObject.__init__: every initial property is cached with the time of
\* construction.
_BaseObject(kind, props) ==
    [kind |-> kind,
     path |-> props.UUID,
     properties |-> [k \in DOMAIN props |-> [v |-> props[k], t |-> now]]]

\* _Manager.__init__: no subscriptions, no handle (0 stands for None).
\* feedback_subscriptions[1] counts the subscriptions to the manager alone,
\* feedback_subscriptions[2] those that include its descendents.
_Manager(props) ==
    _BaseObject("manager", props)
        @@ [feedback_subscriptions |-> <<0, 0>>,
            feedback_subscription_handle |-> 0]

\* A factory returns the proxies after the call and the proxy it returns.
Manager(ps, props) ==
    IF props.UUID \in DOMAIN _managers
    THEN [ps |-> ps, ref |-> _managers[props.UUID]]
    ELSE [ps |-> Append(ps, _Manager(props)), ref |-> Len(ps) + 1]

Stream(ps, props) ==
    IF props.UUID \in DOMAIN _streams
    THEN [ps |-> ps, ref |-> _streams[props.UUID]]
    ELSE [ps |-> Append(ps, _BaseObject("stream", props)), ref |-> Len(ps) + 1]

Object(ps, props) ==
    IF props.UUID \in DOMAIN _objects
    THEN [ps |-> ps, ref |-> _objects[props.UUID]]
    ELSE [ps |-> Append(ps, _BaseObject("object", props)), ref |-> Len(ps) + 1]

Factory(kind, ps, props) ==
    CASE kind = "manager" -> Manager(ps, props)
      [] kind = "stream"  -> Stream(ps, props)
      [] kind = "object"  -> Object(ps, props)

\* The list comprehension of the list_* and lookup_*_by_cookie methods: one
\* factory call per entity of the reply, in order.
RECURSIVE Comprehend(_, _, _, _, _)
Comprehend(rem, kind, ps, uuids, refs) ==
    IF uuids = <<>> THEN [ps |-> ps, refs |-> refs]
    ELSE LET u == Head(uuids)
             f == Factory(kind, ps, [UUID |-> u,
                                     human_readable_name |-> rem[u].name,
                                     cookie |-> rem[u].cookie,
                                     parent_UUID |-> rem[u].parent])
         IN  Comprehend(rem, kind, f.ps, Tail(uuids), Append(refs, f.ref))

Proxies(kind) == {p \in 1..Len(proxies) : proxies[p].kind = kind}

-----------------------------------------------------------------------------
(* The methods of the low-level layer, as functions of the service's       *)
(* entities rem, its next UUID nxt and the proxies ps.  Each yields what   *)
(* it raised or returned, the remote methods it invoked and the state it   *)
(* leaves.                                                                 *)

Done(status, rem, nxt, ps, val, refs, rpc) ==
    [status |-> status, rem |-> rem, nxt |-> nxt, ps |-> ps, val |-> val,
     refs |-> refs, rpc |-> rpc]

\* The body shared by manager_register, stream_register and object_register:
\* the remote call, then the factory on the new UUID.
Register(rem, nxt, ps, rpc, kind, parent, cookie, name, only_if_cookie_unique) ==
    LET r == Reply(rem, parent, SrvRegister(rem, nxt, kind, parent, cookie,
                                            only_if_cookie_unique))
    IN  IF ~r.ok
        THEN Done(Raised(r), rem, nxt, ps, 0, <<>>, <<rpc>>)
        ELSE LET UUID == r.val
                 f == Factory(kind, ps, [UUID |-> UUID,
                                         human_readable_name |-> name,
                                         cookie |-> cookie])
             IN  Done("ok", SrvAdd(rem, UUID, kind, parent, cookie, name),
                      nxt + 1, f.ps, UUID, <<f.ref>>, <<rpc>>)

\* An enumeration that builds a proxy for the first entity of the reply only.
Enumerate_First(rem, nxt, ps, rpc, kind, parent, uuids) ==
    LET r == Reply(rem, parent, Value(0))
    IN  IF ~r.ok
        THEN Done(Raised(r), rem, nxt, ps, 0, <<>>, <<rpc>>)
        ELSE LET first == IF uuids = <<>> THEN <<>> ELSE <<Head(uuids)>>
                 c == Comprehend(rem, kind, ps, first, <<>>)
             IN  Done("ok", rem, nxt, c.ps, 0, c.refs, <<rpc>>)

\* The body shared by the list_* and lookup_*_by_cookie methods.
Enumerate(rem, nxt, ps, rpc, kind, parent, uuids) ==
    LET r == Reply(rem, parent, Value(0))
    IN  IF ~r.ok
        THEN Done(Raised(r), rem, nxt, ps, 0, <<>>, <<rpc>>)
        ELSE LET c == Comprehend(rem, kind, ps, uuids, <<>>)
             IN  Done("ok", rem, nxt, c.ps, 0, c.refs, <<rpc>>)

\* _Woodchuck
manager_register(rem, nxt, ps, cookie, name, only_if_cookie_unique) ==
    Register(rem, nxt, ps, "ManagerRegister", "manager", Root, cookie, name,
             only_if_cookie_unique)

list_managers(rem, nxt, ps) ==
    Enumerate(rem, nxt, ps, "ListManagers", "manager", Root,
              SortedSeq(SrvChildren(rem, "manager", Root)))

lookup_manager_by_cookie(rem, nxt, ps, cookie) ==
    Enumerate(rem, nxt, ps, "LookupManagerByCookie", "manager", Root,
              SortedSeq(SrvByCookie(rem, "manager", Root, cookie)))

\* _Manager
stream_register(rem, nxt, ps, m, cookie, name, only_if_cookie_unique) ==
    Register(rem, nxt, ps, "StreamRegister", "stream", ps[m].path, cookie,
             name, only_if_cookie_unique)

list_streams(rem, nxt, ps, m) ==
    Enumerate(rem, nxt, ps, "ListStreams", "stream", ps[m].path,
              SortedSeq(SrvChildren(rem, "stream", ps[m].path)))

lookup_stream_by_cookie(rem, nxt, ps, m, cookie) ==
    Enumerate(rem, nxt, ps, "LookupStreamByCookie", "stream", ps[m].path,
              SortedSeq(SrvByCookie(rem, "stream", ps[m].path, cookie)))

\* _Stream
object_register(rem, nxt, ps, s, cookie, name, only_if_cookie_unique) ==
    Register(rem, nxt, ps, "ObjectRegister", "object", ps[s].path, cookie,
             name, only_if_cookie_unique)

list_objects(rem, nxt, ps, s) ==
    Enumerate(rem, nxt, ps, "ListObjects", "object", ps[s].path,
              SortedSeq(SrvChildren(rem, "object", ps[s].path)))

lookup_object_by_cookie(rem, nxt, ps, s, cookie) ==
    Enumerate(rem, nxt, ps, "LookupObjectByCookie", "object", ps[s].path,
              SortedSeq(SrvByCookie(rem, "object", ps[s].path, cookie)))

-----------------------------------------------------------------------------
(* Property access: _BaseObject.__getattribute__ and __setattr__. *)

\* The test, were float('inf') to count as no time at all.
Within_Finite(age, ttl) == age < ttl.t

Within(age, ttl) == ttl.inf \/ age < ttl.t

\* A cache whose entries stay valid until their age exceeds the TTL.
CacheValid_Inclusive(properties, name) ==
    /\ name \in DOMAIN properties
    /\ \/ property_map[name].inf
       \/ now - properties[name].t <= property_map[name].t

\* name is cached and it is still valid.
CacheValid(properties, name) ==
    /\ name \in DOMAIN properties
    /\ Within(now - properties[name].t, property_map[name])

Put(f, k, x) == [n \in DOMAIN f \cup {k} |-> IF n = k THEN x ELSE f[n]]

\* __getattribute__: "TTL is not None.  Cache the value."
GetCache(ps, p, name, value) ==
    [ps EXCEPT ![p].properties = Put(@, name, [v |-> value, t |-> now])]

\* A set that leaves the cache alone.
SetCache_Skip(ps, p, name, value) == ps

\* __setattr__: "Cache the value."
SetCache(ps, p, name, value) ==
    [ps EXCEPT ![p].properties = Put(@, name, [v |-> value, t |-> now])]

__getattribute__(rem, nxt, ps, p, name) ==
    IF CacheValid(ps[p].properties, name)
    THEN Done("ok", rem, nxt, ps, ps[p].properties[name].v, <<>>, <<>>)
    ELSE LET r == Reply(rem, ps[p].path, Value(SrvGet(rem, ps[p].path, name)))
         IN  IF ~r.ok
             THEN Done(Raised(r), rem, nxt, ps, 0, <<>>, <<"Get">>)
             ELSE Done("ok", rem, nxt, GetCache(ps, p, name, r.val), r.val,
                       <<>>, <<"Get">>)

\* A table whose coercions accept every value.
Coercible_Any(name, value) == TRUE

\* The coercion of the property table: dbus.UInt32 for priority, a unicode
\* string for the others.  dbus.UInt32 raises OverflowError for a negative
\* value (and above 2^32 - 1, beyond the values of this model).
Coercible(name, value) ==
    name = "priority" => 0 <= value

\* __setattr__, were it to cache the value before the remote call.
__setattr___CacheFirst(rem, nxt, ps, p, name, value) ==
    IF ~Coercible(name, value)
    THEN Done("OverflowError", rem, nxt, ps, value, <<>>, <<>>)
    ELSE LET r == Reply(rem, ps[p].path, Value(value))
         IN  IF ~r.ok
             THEN Done(Raised(r), rem, nxt, SetCache(ps, p, name, value),
                       value, <<>>, <<"Set">>)
             ELSE Done("ok", SrvSet(rem, ps[p].path, name, value), nxt,
                       SetCache(ps, p, name, value), value, <<>>, <<"Set">>)

\* _BaseObject.__setattr__ of a property.
__setattr__(rem, nxt, ps, p, name, value) ==
    IF ~Coercible(name, value)
    THEN Done("OverflowError", rem, nxt, ps, value, <<>>, <<>>)
    ELSE LET r == Reply(rem, ps[p].path, Value(value))
         IN  IF ~r.ok
             THEN Done(Raised(r), rem, nxt, ps, value, <<>>, <<"Set">>)
             ELSE Done("ok", SrvSet(rem, ps[p].path, name, value), nxt,
                       SetCache(ps, p, name, value), value, <<>>, <<"Set">>)

-----------------------------------------------------------------------------
(* A call of the application: the state the method leaves, and its outcome. *)

\* What a read records of the call made just before it, when that was a
\* read or a set of the same property through the same proxy.
NoPrev == [op |-> "none", status |-> "ok", at |-> 0]
Prev(op, self, name) ==
    IF /\ op = "getattr"
       /\ result.op \in {"getattr", "setattr"}
       /\ result.self = self
       /\ result.name = name
    THEN [op |-> result.op, status |-> result.status, at |-> result.at]
    ELSE NoPrev

Outcome(op, self, name, flag, r) ==
    [op |-> op, self |-> self, name |-> name, flag |-> flag,
     status |-> r.status, val |-> r.val, refs |-> r.refs, rpc |-> r.rpc,
     at |-> now, prev |-> Prev(op, self, name), thread |-> 1,
     seq |-> 1 - result.seq]

NoCall == [op |-> "none", self |-> 0, name |-> "", flag |-> FALSE,
           status |-> "ok", val |-> 0, refs |-> <<>>, rpc |-> <<>>, at |-> 0,
           prev |-> NoPrev, thread |-> 1, seq |-> 0]

Call(op, self, name, flag, r) ==
    /\ remote' = r.rem
    /\ nextUUID' = r.nxt
    /\ proxies' = r.ps
    /\ result' = Outcome(op, self, name, flag, r)
    /\ UNCHANGED <<now, owner, _managers, _streams, _objects>>

-----------------------------------------------------------------------------
(* Unregistration: _Object.unregister, _Stream.unregister and              *)
(* _Manager.unregister.                                                    *)

\* The children of entity u, of whatever kind.
SrvChildrenOf(rem, u) == {v \in DOMAIN rem : rem[v].parent = u}

\* u and everything below it: the hierarchy is three levels deep.
SrvSubtree(rem, u) ==
    LET c == SrvChildrenOf(rem, u)
        g == UNION {SrvChildrenOf(rem, v) : v \in c}
    IN  {u} \cup c \cup g

\* Unregister on entity u: refused for an entity with children when
\* only_if_empty is set.  ret is the value the service replies with.
SrvUnregister(rem, u, only_if_empty, ret) ==
    IF only_if_empty /\ SrvChildrenOf(rem, u) # {}
    THEN Fault(Wc("ObjectExists"))
    ELSE Value(ret)

\* The service's entities once u has been unregistered.
SrvRemove(rem, u) ==
    [v \in DOMAIN rem \ SrvSubtree(rem, u) |-> rem[v]]

Registry(kind) ==
    CASE kind = "manager" -> _managers
      [] kind = "stream"  -> _streams
      [] kind = "object"  -> _objects

\* "del registry[key]".
Del(registry, key) == [k \in DOMAIN registry \ {key} |-> registry[k]]

\* "if ret: del _objects[self.UUID]" (and the like for streams and
\* managers).
Forget(registry, UUID, ret) ==
    IF ~ret
    THEN [status |-> "ok", registry |-> registry]
    ELSE IF UUID \in DOMAIN registry
    THEN [status |-> "ok", registry |-> Del(registry, UUID)]
    ELSE [status |-> "KeyError", registry |-> registry]

\* unregister of proxy p; an object's takes no only_if_empty (FALSE here).
\* Yields, besides what Done holds, the registry of p's kind afterwards.
unregister(rem, nxt, ps, p, only_if_empty, ret) ==
    LET u == ps[p].path
        registry == Registry(ps[p].kind)
        r == Reply(rem, u, SrvUnregister(rem, u, only_if_empty, ret))
    IN  IF ~r.ok
        THEN Done(Raised(r), rem, nxt, ps, u, <<>>, <<"Unregister">>)
                 @@ [registry |-> registry]
        ELSE LET f == Forget(registry, ps[p].properties.UUID.v, r.val)
             IN  Done(f.status, SrvRemove(rem, u), nxt, ps, u, <<>>,
                      <<"Unregister">>)
                     @@ [registry |-> f.registry]

\* A call of unregister on proxy p.
UnregisterCall(p, only_if_empty, r) ==
    /\ remote' = r.rem
    /\ nextUUID' = r.nxt
    /\ proxies' = r.ps
    /\ _managers' = IF proxies[p].kind = "manager" THEN r.registry
                    ELSE _managers
    /\ _streams' = IF proxies[p].kind = "stream" THEN r.registry ELSE _streams
    /\ _objects' = IF proxies[p].kind = "object" THEN r.registry ELSE _objects
    /\ result' = Outcome("unregister", p, "", only_if_empty, r)
    /\ UNCHANGED <<now, owner>>

-----------------------------------------------------------------------------
(* DBusIndirectObject: the proxy every remote call goes through, and the   *)
(* translation of the fault such a call ends in.                           *)

\* self.bus.get_object(...): resolve org.woodchuck to the unique name of its
\* owner.  With no owner, and none that can be started, the lookup faults.
bind_object(svc, fault) == IF svc = 0 THEN Fault(fault) ELSE Value(svc)

\* invoke(): send the method call to the name the handle is bound to.  A
\* name that has left the bus is unknown to it.
invoke(real, svc, reply) ==
    IF real # svc THEN Fault(Bus("ServiceUnknown")) ELSE reply

\* A handle that also rebinds when the service did not reply.
Rebinds_Unavailable(dbus_name) ==
    dbus_name = Bus("ServiceUnknown") \/ dbus_name = Bus("NoReply")

\* A handle that never rebinds.
Rebinds_Never(dbus_name) == FALSE

\* dbus_name == "org.freedesktop.DBus.Error.ServiceUnknown"
Rebinds(dbus_name) == dbus_name = Bus("ServiceUnknown")

\* get_dbus_method(...).wrap: what the call delivers (r), the name the handle
\* is bound to afterwards, and the transport operations done, in order.
wrap(real, svc, first, bindFault, retry) ==
    LET r1 == invoke(real, svc, first)
    IN  IF r1.ok \/ ~Rebinds(r1.dbus_name)
        THEN [r |-> r1, first |-> r1, real_object |-> real,
              trace |-> <<"invoke">>]
        ELSE LET b == bind_object(svc, bindFault)
             IN  IF ~b.ok
                 THEN [r |-> b, first |-> r1, real_object |-> real,
                       trace |-> <<"invoke", "bind">>]
                 ELSE [r |-> invoke(b.val, svc, retry), first |-> r1,
                       real_object |-> b.val,
                       trace |-> <<"invoke", "bind", "invoke">>]

\* An outbound operation: "try: self.dbus.M(...) except DBusException:
\* _dbus_exception_to_woodchuck_exception(exception)".
outbound(real, svc, first, bindFault, retry) ==
    LET w == wrap(real, svc, first, bindFault, retry)
        t == _dbus_exception_to_woodchuck_exception(w.r.dbus_name)
    IN  [status |-> IF w.r.ok THEN "ok" ELSE t.exc,
         val |-> w.r.val, refs |-> <<>>, rpc |-> w.trace,
         real_object |-> w.real_object,
         first |-> w.first, delivered |-> w.r,
         reraised |-> IF w.r.ok THEN NoName ELSE t.fault]

-----------------------------------------------------------------------------
(* Upcalls: the receiver of the service's upcalls, and the private name of *)
(* the service it takes them from.  A private name ":1.n" is the number n. *)

\* An update that keeps the first owner it was told.
Update_FirstOnly(tracked, new_owner) ==
    IF tracked = None THEN new_owner ELSE tracked

\* _woodchuck_owner_update: the value of _woodchuck_owner afterwards.
_woodchuck_owner_update(tracked, new_owner) == new_owner

\* A test that takes every sender for the service.
_is_woodchuck_Any(name, tracked) == TRUE

\* _is_woodchuck: "return name == _woodchuck_owner".
_is_woodchuck(name, tracked) == name = tracked

\* bus.get_name_owner("org.woodchuck"), unless the bus does not answer.
get_name_owner(svc, timeout) ==
    IF timeout THEN Fault(Bus("NoReply"))
    ELSE IF svc = 0 THEN Fault(Bus("NameHasNoOwner"))
    ELSE Value(svc)

\* Upcalls.__init__, were it to take a name without an owner for an owner.
Upcalls_Lenient(tracked, svc, main_loop, timeout) ==
    IF ~main_loop
    THEN [status |-> "RuntimeError", exported |-> FALSE, tracked |-> tracked]
    ELSE LET o == get_name_owner(svc, timeout)
         IN  IF o.ok \/ o.dbus_name = Bus("NameHasNoOwner")
             THEN [status |-> "ok", exported |-> TRUE,
                   tracked |-> _woodchuck_owner_update(tracked, svc)]
             ELSE [status |-> "DBusException", exported |-> TRUE,
                   tracked |-> tracked]

\* Upcalls.__init__: export the receiver, watch the owner of org.woodchuck
\* (_watching_woodchuck_owner is never set), look the owner up.
Upcalls(tracked, svc, main_loop, timeout) ==
    IF ~main_loop
    THEN [status |-> "RuntimeError", exported |-> FALSE, tracked |-> tracked]
    ELSE LET o == get_name_owner(svc, timeout)
         IN  IF o.ok
             THEN [status |-> "ok", exported |-> TRUE,
                   tracked |-> _woodchuck_owner_update(tracked, o.val)]
             ELSE [status |-> IF o.dbus_name = Bus("NameHasNoOwner")
                              THEN "WoodchuckUnavailableError"
                              ELSE "DBusException",
                   exported |-> TRUE, tracked |-> tracked]

UpcallNames ==
    {"ObjectTransferred", "StreamUpdate", "ObjectTransfer", "ObjectDeleteFiles"}

\* ObjectTransferred, StreamUpdate, ObjectTransfer and ObjectDeleteFiles:
\* what the method returns and whether it called its ..._cb.  Only
\* ObjectTransferred returns what the callback returned.
upcall(which, sender, tracked) ==
    IF ~_is_woodchuck(sender, tracked)
    THEN [status |-> "ok", ack |-> "False", hook |-> FALSE]
    ELSE [status |-> "ok",
          ack |-> IF which = "ObjectTransferred" THEN "cb" ELSE "None",
          hook |-> TRUE]

-----------------------------------------------------------------------------
(* Feedback subscriptions: _Manager.feedback_subscribe and                 *)
(* feedback_unsubscribe.  subs is the set of subscriptions the service     *)
(* holds, nh the next handle it hands out.  fault is the position of the   *)
(* remote call of the method that the transport fails, 0 for none.        *)

\* FeedbackSubscribe on manager u.
SrvFeedbackSubscribe(subs, nh, u, descendents_too) ==
    subs \cup {[handle |-> nh, manager |-> u,
                descendents_too |-> descendents_too]}

\* FeedbackUnsubscribe of handle h.
SrvFeedbackUnsubscribe(subs, h) ==
    {x \in subs : x.handle # h}

\* mid is what the service holds between the remote calls of a method that
\* makes two.
SubDone(status, subs, nh, ps, val, rpc) ==
    [status |-> status, subs |-> subs, nh |-> nh, ps |-> ps, val |-> val,
     refs |-> <<>>, rpc |-> rpc, mid |-> subs]

\* A proxy that counts its subscriptions but never stores a handle.
Subscribed_NoHandle(ps, m, h, idx, n) ==
    [ps EXCEPT ![m].feedback_subscriptions[idx + 1] = n]

\* The subscriptions of proxy m after it has replaced its handle by h and
\* set counter idx to n.
Subscribed(ps, m, h, idx, n) ==
    [ps EXCEPT ![m].feedback_subscription_handle = h,
               ![m].feedback_subscriptions[idx + 1] = n]

\* The held subscription does not cover what is asked for.
NeedsUpgrade_Always(descendents_too, fs) == descendents_too

\* A proxy that takes the held subscription to cover whatever is asked for.
NeedsUpgrade_Never(descendents_too, fs) == FALSE

\* "It does not include descendents, but the new subscriber wants
\* descendents."
NeedsUpgrade(descendents_too, fs) == descendents_too /\ fs[2] = 0

LastDescendent_Never(handle, fs) == FALSE

\* "The last descendents_too subscription is now gone, but we still have
\* non-descendent subscriptions."
LastDescendent(handle, fs) == handle = 1 /\ fs[2] = 1 /\ fs[1] > 0

\* A replacement that cancels the held subscription before it requests
\* the new one.
Resubscribe_CancelFirst(subs, nh, ps, m, descendents_too, idx, n, fault) ==
    LET old == ps[m].feedback_subscription_handle
        gone == SrvFeedbackUnsubscribe(subs, old)
        two == <<"FeedbackUnsubscribe", "FeedbackSubscribe">>
    IN  IF fault = 1
        THEN SubDone("DBusException", subs, nh, ps, idx, <<"FeedbackUnsubscribe">>)
        ELSE IF fault = 2
        THEN [SubDone("DBusException", gone, nh, ps, idx, two)
                 EXCEPT !.mid = gone]
        ELSE [SubDone("ok",
                      SrvFeedbackSubscribe(gone, nh, ps[m].path, descendents_too),
                      nh + 1, Subscribed(ps, m, nh, idx, n), idx, two)
                 EXCEPT !.mid = gone]

\* Replace the held subscription by a new one of the given scope: the new
\* one is requested first, then the old one is cancelled.
Resubscribe(subs, nh, ps, m, descendents_too, idx, n, fault) ==
    LET old == ps[m].feedback_subscription_handle
        got == SrvFeedbackSubscribe(subs, nh, ps[m].path, descendents_too)
        two == <<"FeedbackSubscribe", "FeedbackUnsubscribe">>
    IN  IF fault = 1
        THEN SubDone("DBusException", subs, nh, ps, idx, <<"FeedbackSubscribe">>)
        ELSE IF fault = 2
        THEN [SubDone("DBusException", got, nh + 1, ps, idx, two)
                 EXCEPT !.mid = got]
        ELSE [SubDone("ok", SrvFeedbackUnsubscribe(got, old), nh + 1,
                      Subscribed(ps, m, nh, idx, n), idx, two)
                 EXCEPT !.mid = got]

feedback_subscribe(subs, nh, ps, m, descendents_too, fault) ==
    LET idx == IF descendents_too THEN 1 ELSE 0
        fs == ps[m].feedback_subscriptions
        h == ps[m].feedback_subscription_handle
    IN  IF h # 0
        THEN IF NeedsUpgrade(descendents_too, fs)
             THEN IF ~(fs[1] > 0)
                  THEN SubDone("AssertionError", subs, nh, ps, idx, <<>>)
                  ELSE Resubscribe(subs, nh, ps, m, TRUE, idx, fs[idx + 1] + 1,
                                   fault)
             ELSE SubDone("ok", subs, nh,
                          Subscribed(ps, m, h, idx, fs[idx + 1] + 1), idx, <<>>)
        ELSE IF ~(fs[1] = 0 /\ fs[2] = 0)
             THEN SubDone("AssertionError", subs, nh, ps, idx, <<>>)
             ELSE IF fault = 1
             THEN SubDone("DBusException", subs, nh, ps, idx,
                          <<"FeedbackSubscribe">>)
             ELSE SubDone("ok",
                          SrvFeedbackSubscribe(subs, nh, ps[m].path,
                                               descendents_too),
                          nh + 1, Subscribed(ps, m, nh, idx, 1), idx,
                          <<"FeedbackSubscribe">>)

\* feedback_unsubscribe, were the counter of the scope not asserted to be
\* positive.
feedback_unsubscribe_Unchecked(subs, nh, ps, m, handle, fault) ==
    LET fs == ps[m].feedback_subscriptions
        h == ps[m].feedback_subscription_handle
    IN  IF ~(handle = 0 \/ handle = 1)
        THEN SubDone("AssertionError", subs, nh, ps, handle, <<>>)
        ELSE IF fs[1] + fs[2] = 1
        THEN IF fault = 1
             THEN SubDone("DBusException", subs, nh, ps, handle,
                          <<"FeedbackUnsubscribe">>)
             ELSE SubDone("ok", SrvFeedbackUnsubscribe(subs, h), nh,
                          Subscribed(ps, m, 0, handle, fs[handle + 1] - 1),
                          handle, <<"FeedbackUnsubscribe">>)
        ELSE IF LastDescendent(handle, fs)
        THEN Resubscribe(subs, nh, ps, m, FALSE, 1, 0, fault)
        ELSE SubDone("ok", subs, nh, ps, handle, <<>>)

\* _Manager.feedback_unsubscribe.
feedback_unsubscribe(subs, nh, ps, m, handle, fault) ==
    LET fs == ps[m].feedback_subscriptions
        h == ps[m].feedback_subscription_handle
    IN  IF ~(handle = 0 \/ handle = 1)
        THEN SubDone("AssertionError", subs, nh, ps, handle, <<>>)
        ELSE IF ~(fs[handle + 1] > 0)
        THEN SubDone("AssertionError", subs, nh, ps, handle, <<>>)
        ELSE IF fs[1] + fs[2] = 1
        THEN IF fault = 1
             THEN SubDone("DBusException", subs, nh, ps, handle,
                          <<"FeedbackUnsubscribe">>)
             ELSE SubDone("ok", SrvFeedbackUnsubscribe(subs, h), nh,
                          Subscribed(ps, m, 0, handle, fs[handle + 1] - 1),
                          handle, <<"FeedbackUnsubscribe">>)
        ELSE IF LastDescendent(handle, fs)
        THEN Resubscribe(subs, nh, ps, m, FALSE, 1, 0, fault)
        ELSE SubDone("ok", subs, nh, ps, handle, <<>>)

SubCall(op, self, arg, flag, r) ==
    /\ subscriptions' = r.subs
    /\ nextHandle' = r.nh
    /\ proxies' = r.ps
    /\ log' = Append(log, [op |-> op, arg |-> arg, ok |-> r.status = "ok"])
    /\ result' = Outcome(op, self, "", flag, r) @@ [mid |-> r.mid]
    /\ UNCHANGED <<now, owner, remote, nextUUID, _managers, _streams, _objects>>

-----------------------------------------------------------------------------
(* pywoodchuck.PyWoodchuck("A", "a"): the application's manager and the    *)
(* dict of its streams.  manager is the proxy of the manager (0 for None), *)
(* streams maps the identifiers looked up so far to the proxies of their   *)
(* streams.  t is the thread that calls.                                   *)

\* _check_main_thread: the first guarded call fixes the main thread.
Guard(mt, t) == IF mt = 0 THEN t ELSE mt
GuardPasses(mt, t) == mt = 0 \/ mt = t

PyDone(status, rem, nxt, ps, streams, val, rpc) ==
    [status |-> status, rem |-> rem, nxt |-> nxt, ps |-> ps,
     streams |-> streams, val |-> val, refs |-> <<>>, rpc |-> rpc]

\* available, were it guarded like the methods of the low-level layer.
available_Guarded(mgr, mt, t) ==
    IF GuardPasses(mt, t)
    THEN [status |-> "ok", val |-> mgr # 0]
    ELSE [status |-> "AssertionError", val |-> FALSE]

\* PyWoodchuck.available: "return self.manager is not None".
available(mgr, mt, t) == [status |-> "ok", val |-> mgr # 0]

\* The managers of a lookup whose human_readable_name is name.  The name of
\* each was cached when its proxy was built, a moment ago.
NameMatches(ps, refs, name) ==
    {i \in 1..Len(refs) : ps[refs[i]].properties.human_readable_name.v = name}

\* PyWoodchuck.__init__, were it to register its manager whether or not the
\* service knows one with the cookie.
PyWoodchuck_Registers(rem, nxt, ps, name, dbus_service_name) ==
    LET r == manager_register(rem, nxt, ps, dbus_service_name, name, FALSE)
    IN  IF r.status = "ok"
        THEN [pyw |-> "registered", manager |-> r.refs[1], r |-> r]
        ELSE IF r.status = "WoodchuckUnavailableError"
        THEN [pyw |-> "unavailable", manager |-> 0, r |-> r]
        ELSE [pyw |-> "failed", manager |-> 0, r |-> r]

\* PyWoodchuck.__init__, up to "self._streams = {}": what became of the
\* construction, and the manager.
PyWoodchuck(rem, nxt, ps, name, dbus_service_name) ==
    LET r == manager_register(rem, nxt, ps, dbus_service_name, name, TRUE)
    IN  IF r.status = "ok"
        THEN [pyw |-> "registered", manager |-> r.refs[1], r |-> r]
        ELSE IF r.status = "WoodchuckUnavailableError"
        THEN [pyw |-> "unavailable", manager |-> 0, r |-> r]
        ELSE IF r.status = "ObjectExistsError"
        THEN LET l == lookup_manager_by_cookie(rem, nxt, ps, dbus_service_name)
                 both == [l EXCEPT !.rpc = r.rpc \o l.rpc]
             IN  IF l.status # "ok"
                 THEN [pyw |-> "failed", manager |-> 0, r |-> both]
                 ELSE LET ms == NameMatches(l.ps, l.refs, name)
                      IN  IF Cardinality(ms) = 1
                          THEN [pyw |-> "found",
                                manager |-> l.refs[CHOOSE i \in ms : TRUE],
                                r |-> both]
                          ELSE [pyw |-> "failed", manager |-> 0,
                                r |-> [both EXCEPT
                                          !.status = "ObjectExistsError",
                                          !.ps = ps]]
        ELSE [pyw |-> "failed", manager |-> 0, r |-> r]

\* _stream_lookup, were it to take the first stream of the reply whatever
\* the length of the reply.
_stream_lookup_First(rem, nxt, ps, streams, mgr, mt, t, stream_identifier) ==
    IF stream_identifier \in DOMAIN streams
    THEN PyDone("ok", rem, nxt, ps, streams, streams[stream_identifier], <<>>)
    ELSE IF mgr = 0
    THEN PyDone("AttributeError", rem, nxt, ps, streams, 0, <<>>)
    ELSE IF ~GuardPasses(mt, t)
    THEN PyDone("AssertionError", rem, nxt, ps, streams, 0, <<>>)
    ELSE LET l == lookup_stream_by_cookie(rem, nxt, ps, mgr, stream_identifier)
         IN  IF l.status # "ok"
             THEN PyDone(l.status, rem, nxt, ps, streams, 0, l.rpc)
             ELSE IF Len(l.refs) = 0
             THEN PyDone("NoSuchObject", rem, nxt, ps, streams, 0, l.rpc)
             ELSE PyDone("ok", rem, nxt, l.ps,
                         Put(streams, stream_identifier, l.refs[1]),
                         l.refs[1], l.rpc)

\* PyWoodchuck._stream_lookup (UUID is None): the stream of the dict, or
\* else the one stream the service finds, which enters the dict.
_stream_lookup(rem, nxt, ps, streams, mgr, mt, t, stream_identifier) ==
    IF stream_identifier \in DOMAIN streams
    THEN PyDone("ok", rem, nxt, ps, streams, streams[stream_identifier], <<>>)
    ELSE IF mgr = 0
    THEN PyDone("AttributeError", rem, nxt, ps, streams, 0, <<>>)
    ELSE IF ~GuardPasses(mt, t)
    THEN PyDone("AssertionError", rem, nxt, ps, streams, 0, <<>>)
    ELSE LET l == lookup_stream_by_cookie(rem, nxt, ps, mgr, stream_identifier)
         IN  IF l.status # "ok"
             THEN PyDone(l.status, rem, nxt, ps, streams, 0, l.rpc)
             ELSE IF Len(l.refs) > 1
             THEN PyDone("InternalError", rem, nxt, ps, streams, 0, l.rpc)
             ELSE IF Len(l.refs) = 0
             THEN PyDone("NoSuchObject", rem, nxt, ps, streams, 0, l.rpc)
             ELSE PyDone("ok", rem, nxt, l.ps,
                         Put(streams, stream_identifier, l.refs[1]),
                         l.refs[1], l.rpc)

\* "except woodchuck.NoSuchObject, exception: raise KeyError (...)".
AsKeyError(r) ==
    IF r.status = "NoSuchObject" THEN [r EXCEPT !.status = "KeyError"] ELSE r

\* PyWoodchuck.__getitem__: _stream_lookup, NoSuchObject turned into
\* KeyError.
__getitem__(rem, nxt, ps, streams, mgr, mt, t, stream_identifier) ==
    AsKeyError(_stream_lookup(rem, nxt, ps, streams, mgr, mt, t,
                              stream_identifier))

\* _Stream._object_lookup (object_UUID is None) of the stream with proxy s:
\* the object of the stream's dict, or else the one object the service
\* finds, which enters the dict.  The dict is the streams field of the
\* outcome.
_object_lookup(rem, nxt, ps, objects, s, mt, t, object_identifier) ==
    IF object_identifier \in DOMAIN objects
    THEN PyDone("ok", rem, nxt, ps, objects, objects[object_identifier], <<>>)
    ELSE IF ~GuardPasses(mt, t)
    THEN PyDone("AssertionError", rem, nxt, ps, objects, 0, <<>>)
    ELSE LET l == lookup_object_by_cookie(rem, nxt, ps, s, object_identifier)
         IN  IF l.status # "ok"
             THEN PyDone(l.status, rem, nxt, ps, objects, 0, l.rpc)
             ELSE IF Len(l.refs) > 1
             THEN PyDone("InternalError", rem, nxt, ps, objects, 0, l.rpc)
             ELSE IF Len(l.refs) = 0
             THEN PyDone("NoSuchObject", rem, nxt, ps, objects, 0, l.rpc)
             ELSE PyDone("ok", rem, nxt, l.ps,
                         Put(objects, object_identifier, l.refs[1]),
                         l.refs[1], l.rpc)

\* _Stream.__getitem__: _object_lookup, NoSuchObject turned into KeyError.
stream__getitem__(rem, nxt, ps, objects, s, mt, t, object_identifier) ==
    AsKeyError(_object_lookup(rem, nxt, ps, objects, s, mt, t,
                              object_identifier))

\* PyWoodchuck.stream_register: the registration, then self[identifier].
\* The proxy the registration returns is dropped.
py_stream_register(rem, nxt, ps, streams, mgr, mt, t, stream_identifier) ==
    IF mgr = 0
    THEN PyDone("AttributeError", rem, nxt, ps, streams, 0, <<>>)
    ELSE IF ~GuardPasses(mt, t)
    THEN PyDone("AssertionError", rem, nxt, ps, streams, 0, <<>>)
    ELSE LET r == stream_register(rem, nxt, ps, mgr, stream_identifier, "A",
                                  TRUE)
         IN  IF r.status # "ok"
             THEN PyDone(r.status, rem, nxt, ps, streams, 0, r.rpc)
             ELSE LET g == __getitem__(r.rem, r.nxt, ps, streams, mgr, mt, t,
                                       stream_identifier)
                  IN  [g EXCEPT !.rpc = r.rpc \o g.rpc]

\* PyWoodchuck.__len__ (and keys, which makes the same call): the number
\* of streams of the manager.  The proxies of the list are dropped.
__len__(rem, nxt, ps, streams, mgr, mt, t) ==
    IF mgr = 0
    THEN PyDone("AttributeError", rem, nxt, ps, streams, 0, <<>>)
    ELSE IF ~GuardPasses(mt, t)
    THEN PyDone("AssertionError", rem, nxt, ps, streams, 0, <<>>)
    ELSE LET l == list_streams(rem, nxt, ps, mgr)
         IN  PyDone(l.status, rem, nxt, ps, streams, Len(l.refs), l.rpc)

\* PyWoodchuck.stream_property_get: self[identifier], then the read.
stream_property_get(rem, nxt, ps, streams, mgr, mt, t, stream_identifier, property) ==
    LET g == __getitem__(rem, nxt, ps, streams, mgr, mt, t, stream_identifier)
    IN  IF g.status # "ok" THEN g
        ELSE IF ~GuardPasses(mt, t)
        THEN PyDone("AssertionError", rem, nxt, g.ps, g.streams, 0, g.rpc)
        ELSE LET r == __getattribute__(rem, nxt, g.ps, g.val, property)
             IN  PyDone(r.status, rem, nxt, r.ps, g.streams, r.val,
                        g.rpc \o r.rpc)

\* PyWoodchuck.stream_property_set: self[identifier], then the write.
stream_property_set(rem, nxt, ps, streams, mgr, mt, t, stream_identifier, property, value) ==
    LET g == __getitem__(rem, nxt, ps, streams, mgr, mt, t, stream_identifier)
    IN  IF g.status # "ok" THEN g
        ELSE IF ~GuardPasses(mt, t)
        THEN PyDone("AssertionError", rem, nxt, g.ps, g.streams, 0, g.rpc)
        ELSE LET r == __setattr__(rem, nxt, g.ps, g.val, property, value)
             IN  PyDone(r.status, r.rem, nxt, r.ps, g.streams, r.val,
                        g.rpc \o r.rpc)

\* "except KeyError, exception: raise woodchuck.NoSuchObject (...)".
AsNoSuchObject(r) ==
    IF r.status = "KeyError" THEN [r EXCEPT !.status = "NoSuchObject"] ELSE r

\* _Stream._objects of the stream under stream_identifier: empty when the
\* stream's wrapper was made.
ObjectsOf(objs, stream_identifier) ==
    IF stream_identifier \in DOMAIN objs THEN objs[stream_identifier]
    ELSE <<>>

\* The dicts of the objects once that of stream_identifier is dict d.
WithObjects(objs, stream_identifier, d) ==
    IF DOMAIN d = {} THEN Del(objs, stream_identifier)
    ELSE Put(objs, stream_identifier, d)

\* _Stream.unregister and _Object.unregister of the wrapper of proxy p:
\* self.cookie, the two asserts, the unregister of the low-level layer,
\* then "del self.containing_dict[identifier]".
py_unregister(rem, nxt, ps, containing_dict, p, ret) ==
    LET c == __getattribute__(rem, nxt, ps, p, "cookie")
    IN  IF c.status # "ok"
        THEN PyDone(c.status, rem, nxt, ps, containing_dict, 0, c.rpc)
        ELSE IF c.val \notin DOMAIN containing_dict
        THEN PyDone("AssertionError", rem, nxt, c.ps, containing_dict, 0,
                    c.rpc)
        ELSE IF containing_dict[c.val] # p
        THEN PyDone("AssertionError", rem, nxt, c.ps, containing_dict, 0,
                    c.rpc)
        ELSE LET u == unregister(rem, nxt, c.ps, p, FALSE, ret)
             IN  IF u.status # "ok"
                 THEN PyDone(u.status, u.rem, nxt, c.ps, containing_dict, 0,
                             c.rpc \o u.rpc)
                 ELSE PyDone("ok", u.rem, nxt, c.ps,
                             Del(containing_dict, c.val), 0, c.rpc \o u.rpc)

\* The dicts of the objects once the streams are those of dict streams: a
\* stream's _objects goes with its wrapper.
Kept(objs, streams) ==
    [k \in DOMAIN objs \cap DOMAIN streams |-> objs[k]]

\* PyWoodchuck.stream_unregister: "del self[stream_identifier]", which is
\* self[stream_identifier].unregister (), a KeyError turned into
\* NoSuchObject.  Yields the dicts of the objects besides.
stream_unregister(rem, nxt, ps, streams, objs, mgr, mt, t, stream_identifier, ret) ==
    LET g == __getitem__(rem, nxt, ps, streams, mgr, mt, t, stream_identifier)
    IN  IF g.status # "ok"
        THEN AsNoSuchObject(g) @@ [objects |-> objs]
        ELSE LET u == py_unregister(rem, nxt, g.ps, g.streams, g.val, ret)
                 r == [u EXCEPT !.rpc = g.rpc \o u.rpc]
             IN  AsNoSuchObject(r) @@ [objects |-> Kept(objs, r.streams)]

\* PyWoodchuck.object_register: self[stream_identifier], then
\* _Stream.object_register, which stores the wrapper of the new object in
\* the stream's dict.
py_object_register(rem, nxt, ps, streams, objs, mgr, mt, t, stream_identifier, object_identifier) ==
    LET g == __getitem__(rem, nxt, ps, streams, mgr, mt, t, stream_identifier)
    IN  IF g.status # "ok" THEN g @@ [objects |-> objs]
        ELSE LET r == object_register(rem, nxt, g.ps, g.val,
                                      object_identifier, "A", TRUE)
             IN  IF r.status # "ok"
                 THEN PyDone(r.status, rem, nxt, g.ps, g.streams, 0,
                             g.rpc \o r.rpc) @@ [objects |-> objs]
                 ELSE PyDone("ok", r.rem, r.nxt, r.ps, g.streams, r.refs[1],
                             g.rpc \o r.rpc)
                          @@ [objects |->
                                Put(objs, stream_identifier,
                                    Put(ObjectsOf(objs, stream_identifier),
                                        object_identifier, r.refs[1]))]

\* PyWoodchuck.object_unregister:
\* self[stream_identifier][object_identifier].unregister ().
object_unregister(rem, nxt, ps, streams, objs, mgr, mt, t, stream_identifier, object_identifier, ret) ==
    LET g == __getitem__(rem, nxt, ps, streams, mgr, mt, t, stream_identifier)
    IN  IF g.status # "ok" THEN g @@ [objects |-> objs]
        ELSE LET o == stream__getitem__(rem, nxt, g.ps,
                                        ObjectsOf(objs, stream_identifier),
                                        g.val, mt, t, object_identifier)
             IN  IF o.status # "ok"
                 THEN PyDone(o.status, rem, nxt, g.ps, g.streams, 0,
                             g.rpc \o o.rpc) @@ [objects |-> objs]
                 ELSE LET u == py_unregister(rem, nxt, o.ps, o.streams, o.val,
                                             ret)
                      IN  PyDone(u.status, u.rem, nxt, u.ps, g.streams, 0,
                                 g.rpc \o o.rpc \o u.rpc)
                              @@ [objects |->
                                    WithObjects(objs, stream_identifier,
                                                u.streams)]

\* pywoodchuck[stream_identifier]._object_lookup (object_identifier).
py_object_lookup(rem, nxt, ps, streams, objs, mgr, mt, t, stream_identifier, object_identifier) ==
    LET g == __getitem__(rem, nxt, ps, streams, mgr, mt, t, stream_identifier)
    IN  IF g.status # "ok" THEN g @@ [objects |-> objs]
        ELSE LET o == _object_lookup(rem, nxt, g.ps,
                                     ObjectsOf(objs, stream_identifier),
                                     g.val, mt, t, object_identifier)
             IN  PyDone(o.status, rem, nxt, o.ps, g.streams, o.val,
                        g.rpc \o o.rpc)
                     @@ [objects |->
                           WithObjects(objs, stream_identifier, o.streams)]

\* len (pywoodchuck[stream_identifier]): self[stream_identifier], then
\* _Stream.__len__, the number of objects the service lists.
stream__len__(rem, nxt, ps, streams, mgr, mt, t, stream_identifier) ==
    LET g == __getitem__(rem, nxt, ps, streams, mgr, mt, t, stream_identifier)
    IN  IF g.status # "ok" THEN g
        ELSE LET l == list_objects(rem, nxt, g.ps, g.val)
             IN  PyDone(l.status, rem, nxt, g.ps, g.streams, Len(l.refs),
                        g.rpc \o l.rpc)

\* "self['cookie']" in _BaseObject.__setattr__, self the wrapper of proxy p
\* and own its _objects: _Stream.__getitem__ ('cookie') for a stream, the
\* lookup of an object named cookie; an _Object has no __getitem__.
Subscript(rem, nxt, ps, own, p, mt, t) ==
    IF ps[p].kind = "stream"
    THEN stream__getitem__(rem, nxt, ps, own, p, mt, t, "cookie")
    ELSE PyDone("TypeError", rem, nxt, ps, own, 0, <<>>)

\* "oldvalue in self.containing_dict": the keys of the dict are strings,
\* and a wrapper equals no string.
HasKey(d, oldvalue, wrapper) == ~wrapper /\ oldvalue \in DOMAIN d

\* The one element of a set: binds the outcome of a call once.
The(S) == CHOOSE x \in S : TRUE

\* _BaseObject.__setattr__ ('cookie', value) of the wrapper of proxy p, own
\* its _objects: self['cookie'], the set of the low-level layer, then the
\* assert and the new key.
py__setattr__(rem, nxt, ps, containing_dict, own, p, mt, t, value) ==
    The({IF oldvalue.status # "ok"
         THEN PyDone(oldvalue.status, rem, nxt, oldvalue.ps, containing_dict,
                     0, oldvalue.rpc) @@ [own |-> oldvalue.streams]
         ELSE The({IF w.status # "ok"
                   THEN PyDone(w.status, rem, nxt, oldvalue.ps,
                               containing_dict, 0, oldvalue.rpc \o w.rpc)
                            @@ [own |-> oldvalue.streams]
                   ELSE IF ~HasKey(containing_dict, oldvalue.val, TRUE)
                   THEN PyDone("AssertionError", w.rem, nxt, w.ps,
                               containing_dict, 0, oldvalue.rpc \o w.rpc)
                            @@ [own |-> oldvalue.streams]
                   ELSE PyDone("ok", w.rem, nxt, w.ps,
                               Put(Del(containing_dict, oldvalue.val), value,
                                   p),
                               0, oldvalue.rpc \o w.rpc)
                            @@ [own |-> oldvalue.streams] :
                   w \in {__setattr__(rem, nxt, oldvalue.ps, p, "cookie",
                                      value)}}) :
         oldvalue \in {Subscript(rem, nxt, ps, own, p, mt, t)}})

\* pywoodchuck[stream_identifier].cookie = value.
stream_set_cookie(rem, nxt, ps, streams, objs, mgr, mt, t, stream_identifier, value) ==
    The({IF g.status # "ok"
         THEN g @@ [objects |-> objs]
         ELSE The({PyDone(a.status, a.rem, nxt, a.ps, a.streams, 0,
                          g.rpc \o a.rpc)
                       @@ [objects |->
                             IF a.status = "ok"
                             THEN WithObjects(Del(objs, stream_identifier),
                                              value, a.own)
                             ELSE WithObjects(objs, stream_identifier,
                                              a.own)] :
                   a \in {py__setattr__(rem, nxt, g.ps, g.streams,
                                        ObjectsOf(objs, stream_identifier),
                                        g.val, mt, t, value)}}) :
         g \in {__getitem__(rem, nxt, ps, streams, mgr, mt, t,
                            stream_identifier)}})

\* pywoodchuck[stream_identifier][object_identifier].cookie = value.
object_set_cookie(rem, nxt, ps, streams, objs, mgr, mt, t, stream_identifier, object_identifier, value) ==
    The({IF g.status # "ok"
         THEN g @@ [objects |-> objs]
         ELSE The({IF o.status # "ok"
                   THEN PyDone(o.status, rem, nxt, g.ps, g.streams, 0,
                               g.rpc \o o.rpc) @@ [objects |-> objs]
                   ELSE The({PyDone(a.status, a.rem, nxt, a.ps, g.streams, 0,
                                    g.rpc \o o.rpc \o a.rpc)
                                 @@ [objects |->
                                       WithObjects(objs, stream_identifier,
                                                   a.streams)] :
                             a \in {py__setattr__(rem, nxt, o.ps, o.streams,
                                                  <<>>, o.val, mt, t,
                                                  value)}}) :
                   o \in {stream__getitem__(rem, nxt, g.ps,
                                            ObjectsOf(objs, stream_identifier),
                                            g.val, mt, t,
                                            object_identifier)}}) :
         g \in {__getitem__(rem, nxt, ps, streams, mgr, mt, t,
                            stream_identifier)}})

\* woodchuck.TransferStatus.
Success == 0
FailureGone == 513

\* woodchuck._Object.transfer_status of proxy p: the TransferStatus call.
\* reported lists the object and the status of each report the service got.
transfer_status(rem, nxt, ps, p, status) ==
    The({IF ~r.ok
         THEN Done(Raised(r), rem, nxt, ps, 0, <<>>, <<"TransferStatus">>)
                  @@ [reported |-> <<>>]
         ELSE Done("ok", rem, nxt, ps, 0, <<>>, <<"TransferStatus">>)
                  @@ [reported |-> << <<ps[p].path, status>> >>] :
         r \in {Reply(rem, ps[p].path, Value(0))}})

\* The object found or registered, were the object registered without a
\* look at the stream.
Ensured_Always(rem, nxt, ps, objects, s, mt, t, object_identifier) ==
    The({IF r.status # "ok"
         THEN PyDone(r.status, rem, nxt, ps, objects, 0, r.rpc)
         ELSE PyDone("ok", r.rem, r.nxt, r.ps,
                     Put(objects, object_identifier, r.refs[1]), r.refs[1],
                     r.rpc) :
         r \in {object_register(rem, nxt, ps, s, object_identifier,
                                object_identifier, TRUE)}})

\* "try: object = self[object_identifier]; except KeyError:
\* self.object_register (object_identifier, object_identifier, 0); object =
\* self._objects[object_identifier]" of the stream with proxy s.
Ensured(rem, nxt, ps, objects, s, mt, t, object_identifier) ==
    The({IF o.status # "KeyError" THEN o
         ELSE The({IF r.status # "ok"
                   THEN PyDone(r.status, rem, nxt, o.ps, objects, 0,
                               o.rpc \o r.rpc)
                   ELSE PyDone("ok", r.rem, r.nxt, r.ps,
                               Put(objects, object_identifier, r.refs[1]),
                               r.refs[1], o.rpc \o r.rpc) :
                   r \in {object_register(rem, nxt, o.ps, s,
                                          object_identifier,
                                          object_identifier, TRUE)}}) :
         o \in {stream__getitem__(rem, nxt, ps, objects, s, mt, t,
                                  object_identifier)}})

\* _Stream.object_transferred: the object found or registered, then
\* _Object.transferred, which reports status 0.
object_transferred(rem, nxt, ps, objects, s, mt, t, object_identifier) ==
    The({IF e.status # "ok" THEN e @@ [reported |-> <<>>]
         ELSE The({PyDone(x.status, e.rem, e.nxt, e.ps, e.streams, 0,
                          e.rpc \o x.rpc) @@ [reported |-> x.reported] :
                   x \in {transfer_status(e.rem, e.nxt, e.ps, e.val,
                                          Success)}}) :
         e \in {Ensured(rem, nxt, ps, objects, s, mt, t, object_identifier)}})

\* _Stream.object_transfer_failed: the object found or registered, then
\* self[object_identifier].transfer_failed (reason).
object_transfer_failed(rem, nxt, ps, objects, s, mt, t, object_identifier, reason) ==
    The({IF e.status # "ok" THEN e @@ [reported |-> <<>>]
         ELSE The({IF o.status # "ok"
                   THEN PyDone(o.status, e.rem, e.nxt, o.ps, o.streams, 0,
                               e.rpc \o o.rpc) @@ [reported |-> <<>>]
                   ELSE The({PyDone(x.status, e.rem, e.nxt, o.ps, o.streams,
                                    0, e.rpc \o o.rpc \o x.rpc)
                                 @@ [reported |-> x.reported] :
                             x \in {transfer_status(e.rem, e.nxt, o.ps, o.val,
                                                    reason)}}) :
                   o \in {stream__getitem__(e.rem, e.nxt, e.ps, e.streams, s,
                                            mt, t, object_identifier)}}) :
         e \in {Ensured(rem, nxt, ps, objects, s, mt, t, object_identifier)}})

\* _singleton (_Object, identifier, stream, llobject): the live instance
\* of the identifier; one is made of llobject and stored when there is
\* none.  An instance goes by the proxy that is its llobject.  With a live
\* instance, "assert llobject == o.llobject" is evaluated, where no name
\* llobject is defined.
_singleton(singletons, identifier, llobject) ==
    IF identifier \notin DOMAIN singletons
    THEN [status |-> "ok", val |-> llobject,
          singletons |-> Put(singletons, identifier, llobject)]
    ELSE [status |-> "NameError", val |-> 0, singletons |-> singletons]

\* pywoodchuck.Object (stream, llobject): _singleton on llobject.cookie.
py_Object(rem, nxt, ps, singletons, llobject) ==
    The({IF c.status # "ok"
         THEN [status |-> c.status, val |-> 0, singletons |-> singletons,
               ps |-> c.ps, rpc |-> c.rpc]
         ELSE _singleton(singletons, c.val, llobject)
                  @@ [ps |-> c.ps, rpc |-> c.rpc] :
         c \in {__getattribute__(rem, nxt, ps, llobject, "cookie")}})

\* "[Object (self, o) for o in ...]" from the i-th proxy of refs on.
RECURSIVE Instances(_, _, _, _, _, _)
Instances(rem, nxt, ps, singletons, refs, i) ==
    IF i > Len(refs)
    THEN [status |-> "ok", singletons |-> singletons, ps |-> ps, rpc |-> <<>>]
    ELSE The({IF o.status # "ok"
              THEN [status |-> o.status, singletons |-> o.singletons,
                    ps |-> o.ps, rpc |-> o.rpc]
              ELSE The({[n EXCEPT !.rpc = o.rpc \o n.rpc] :
                        n \in {Instances(rem, nxt, o.ps, o.singletons, refs,
                                         i + 1)}}) :
              o \in {py_Object(rem, nxt, ps, singletons, refs[i])}})

\* _Stream.objects_list of the stream with proxy s: the number of instances
\* of the list it returns.  The instances stay alive with the list; those of
\* a list that is not returned are freed.
objects_list(rem, nxt, ps, singletons, s) ==
    The({IF l.status # "ok"
         THEN [status |-> l.status, val |-> 0, singletons |-> singletons,
               ps |-> ps, rpc |-> l.rpc]
         ELSE The({IF x.status # "ok"
                   THEN [status |-> x.status, val |-> 0,
                         singletons |-> singletons, ps |-> x.ps,
                         rpc |-> l.rpc \o x.rpc]
                   ELSE [status |-> "ok", val |-> Len(l.refs),
                         singletons |-> x.singletons, ps |-> x.ps,
                         rpc |-> l.rpc \o x.rpc] :
                   x \in {Instances(rem, nxt, l.ps, singletons, l.refs, 1)}}) :
         l \in {list_objects(rem, nxt, ps, s)}})

\* A call of a method of the PyWoodchuck instance from thread t.
PyCall(op, t, name, r) ==
    /\ remote' = r.rem
    /\ nextUUID' = r.nxt
    /\ proxies' = r.ps
    /\ _pystreams' = r.streams
    /\ result' = [Outcome(op, 0, name, FALSE, r) EXCEPT !.thread = t]
    /\ UNCHANGED <<now, owner, _managers, _streams, _objects>>
    /\ UNCHANGED <<pyw, manager, _pyobjects, _singletons>>
    /\ UNCHANGED <<subVars, extVars>>

\* The callbacks of PyWoodchuck that a subclass may override.
Callbacks ==
    {"object_transferred_cb", "stream_update_cb", "object_transfer_cb",
     "object_delete_files_cb"}

\* A constructor that asks for feedback whatever the class overrides.
Subscribes_Always(request_feedback, hooks) == request_feedback

\* "if request_feedback:" and some callback of the class is not
\* PyWoodchuck's: hooks are the callbacks the class overrides.
Subscribes(request_feedback, hooks) == request_feedback /\ hooks # {}

\* PyWoodchuck._upcalls.__init__: construct the receiver and subscribe to
\* the manager's feedback, unless the service is unavailable.
_upcalls(subs, nh, ps, mgr, tracked, svc, main_loop, timeout, fault) ==
    LET u == Upcalls(tracked, svc, main_loop, timeout)
        none == SubDone(u.status, subs, nh, ps, 0, <<>>)
    IN  IF u.status = "WoodchuckUnavailableError"
        THEN [u |-> u, s |-> [none EXCEPT !.status = "ok"]]
        ELSE IF u.status # "ok"
        THEN [u |-> u, s |-> none]
        ELSE IF mgr = 0
        THEN [u |-> u, s |-> [none EXCEPT !.status = "AttributeError"]]
        ELSE [u |-> u, s |-> feedback_subscribe(subs, nh, ps, mgr, FALSE, fault)]

\* PyWoodchuck.__init__ from "if request_feedback:" on.
request_feedback(subs, nh, ps, mgr, tracked, svc, request, hooks, main_loop, timeout, fault) ==
    IF Subscribes(request, hooks)
    THEN _upcalls(subs, nh, ps, mgr, tracked, svc, main_loop, timeout, fault)
    ELSE [u |-> [status |-> "ok", exported |-> FALSE, tracked |-> tracked],
          s |-> SubDone("ok", subs, nh, ps, 0, <<>>)]

-----------------------------------------------------------------------------
(* The environment: time passes, the service loses and regains its owner. *)

Tick ==
    /\ now < MaxTime
    /\ now' = now + 1
    /\ UNCHANGED <<owner, remote, nextUUID, proxies, _managers, _streams,
                   _objects, result>>
    /\ UNCHANGED <<subVars, pyVars, extVars>>

OwnerChange ==
    /\ owner' = ~owner
    /\ UNCHANGED <<now, remote, nextUUID, proxies, _managers, _streams,
                   _objects, result>>
    /\ UNCHANGED <<subVars, pyVars, extVars>>

-----------------------------------------------------------------------------
(* Bounds on the calls the application makes: the service hands out at     *)
(* most maxUUID UUIDs and the application holds at most maxProxies         *)
(* proxies.                                                                *)

CanRegister(maxUUID, maxProxies) ==
    /\ nextUUID <= maxUUID
    /\ Len(proxies) < maxProxies

CanEnumerate(kind, parent, maxProxies) ==
    Len(proxies) + Cardinality(SrvChildren(remote, kind, parent)) <= maxProxies

InitLL ==
    /\ now = 0
    /\ owner = TRUE
    /\ remote = <<>>
    /\ nextUUID = 1
    /\ proxies = <<>>
    /\ _managers = <<>>
    /\ _streams = <<>>
    /\ _objects = <<>>
    /\ result = NoCall

InitSub ==
    /\ subscriptions = {}
    /\ nextHandle = 1
    /\ log = <<>>

InitPy ==
    /\ _main_thread = 0
    /\ pyw = "none"
    /\ manager = 0
    /\ _pystreams = <<>>
    /\ _pyobjects = <<>>
    /\ _singletons = <<>>

InitBus ==
    /\ busNames = 1
    /\ real_object = 1

InitUp ==
    /\ _woodchuck_owner = None
    /\ exported = FALSE
    /\ signals = <<>>

\* apt-woodchuck: the main thread and the threads of the jobs.
Main == 0
JobThreads == 1..MaxJobs
Keys == {"a", "b", "c"}

\* Where a thread that holds no job to start is.
At(pc_) == [pc |-> pc_, job |-> 0]

InitThreads ==
    /\ pc = [t \in Callers |-> "idle"]
    /\ ran = {}
    /\ running = 0
    /\ jobs = <<>>
    /\ keys = <<>>
    /\ jpc = [t \in {Main} \cup JobThreads |->
                IF t = Main THEN At("idle") ELSE At("none")]
    /\ started = <<>>

Init == InitLL /\ InitSub /\ InitPy /\ InitBus /\ InitUp /\ InitThreads

-----------------------------------------------------------------------------
(* Spec: the entity hierarchy. *)

ManagerRegisterTop ==
    /\ CanRegister(MaxUUID, MaxProxies)
    /\ \E c \in Cookies, q \in BOOLEAN :
           Call("manager_register", 0, c, q,
                manager_register(remote, nextUUID, proxies, c, "A", q))
    /\ UNCHANGED <<subVars, pyVars, extVars>>

ListManagersTop ==
    /\ CanEnumerate("manager", Root, MaxProxies)
    /\ Call("list_managers", 0, "", FALSE,
            list_managers(remote, nextUUID, proxies))
    /\ UNCHANGED <<subVars, pyVars, extVars>>

LookupManagerTop ==
    /\ CanEnumerate("manager", Root, MaxProxies)
    /\ \E c \in Cookies :
           Call("lookup_manager_by_cookie", 0, c, FALSE,
                lookup_manager_by_cookie(remote, nextUUID, proxies, c))
    /\ UNCHANGED <<subVars, pyVars, extVars>>

StreamRegister ==
    /\ CanRegister(MaxUUID, MaxProxies)
    /\ \E m \in Proxies("manager"), c \in Cookies, q \in BOOLEAN :
           Call("stream_register", m, c, q,
                stream_register(remote, nextUUID, proxies, m, c, "A", q))
    /\ UNCHANGED <<subVars, pyVars, extVars>>

ListStreams ==
    /\ \E m \in Proxies("manager") :
           /\ CanEnumerate("stream", proxies[m].path, MaxProxies)
           /\ Call("list_streams", m, "", FALSE,
                   list_streams(remote, nextUUID, proxies, m))
    /\ UNCHANGED <<subVars, pyVars, extVars>>

LookupStream ==
    /\ \E m \in Proxies("manager") :
           /\ CanEnumerate("stream", proxies[m].path, MaxProxies)
           /\ \E c \in Cookies :
                  Call("lookup_stream_by_cookie", m, c, FALSE,
                       lookup_stream_by_cookie(remote, nextUUID, proxies, m, c))
    /\ UNCHANGED <<subVars, pyVars, extVars>>

ObjectRegister ==
    /\ CanRegister(MaxUUID, MaxProxies)
    /\ \E s \in Proxies("stream"), c \in Cookies, q \in BOOLEAN :
           Call("object_register", s, c, q,
                object_register(remote, nextUUID, proxies, s, c, "A", q))
    /\ UNCHANGED <<subVars, pyVars, extVars>>

ListObjects ==
    /\ \E s \in Proxies("stream") :
           /\ CanEnumerate("object", proxies[s].path, MaxProxies)
           /\ Call("list_objects", s, "", FALSE,
                   list_objects(remote, nextUUID, proxies, s))
    /\ UNCHANGED <<subVars, pyVars, extVars>>

LookupObject ==
    /\ \E s \in Proxies("stream") :
           /\ CanEnumerate("object", proxies[s].path, MaxProxies)
           /\ \E c \in Cookies :
                  Call("lookup_object_by_cookie", s, c, FALSE,
                       lookup_object_by_cookie(remote, nextUUID, proxies, s, c))
    /\ UNCHANGED <<subVars, pyVars, extVars>>

Next ==
    \/ ManagerRegisterTop
    \/ ListManagersTop
    \/ LookupManagerTop
    \/ StreamRegister
    \/ ListStreams
    \/ LookupStream
    \/ ObjectRegister
    \/ ListObjects
    \/ LookupObject

Spec == Init /\ [][Next]_vars

-----------------------------------------------------------------------------
(* SpecProp: the property cache of the proxies of a stream and an object. *)

PropRegisterManager ==
    /\ CanRegister(1, MaxProxies)
    /\ Call("manager_register", 0, "a", TRUE,
            manager_register(remote, nextUUID, proxies, "a", "A", TRUE))
    /\ UNCHANGED <<subVars, pyVars, extVars>>

PropRegisterStream ==
    /\ CanRegister(2, MaxProxies)
    /\ \E m \in Proxies("manager") :
           Call("stream_register", m, "a", TRUE,
                stream_register(remote, nextUUID, proxies, m, "a", "A", TRUE))
    /\ UNCHANGED <<subVars, pyVars, extVars>>

PropRegisterObject ==
    /\ CanRegister(3, MaxProxies)
    /\ \E s \in Proxies("stream") :
           Call("object_register", s, "a", TRUE,
                object_register(remote, nextUUID, proxies, s, "a", "A", TRUE))
    /\ UNCHANGED <<subVars, pyVars, extVars>>

PropProxies == Proxies("stream") \cup Proxies("object")

GetAttr ==
    /\ \E p \in PropProxies, n \in {"UUID", "cookie", "priority"} :
           Call("getattr", p, n, FALSE,
                __getattribute__(remote, nextUUID, proxies, p, n))
    /\ UNCHANGED <<subVars, pyVars, extVars>>

SetAttr ==
    /\ \E p \in PropProxies, v \in Priorities \cup {-1} :
           Call("setattr", p, "priority", FALSE,
                __setattr__(remote, nextUUID, proxies, p, "priority", v))
    /\ UNCHANGED <<subVars, pyVars, extVars>>

NextProp ==
    \/ PropRegisterManager
    \/ PropRegisterStream
    \/ PropRegisterObject
    \/ GetAttr
    \/ SetAttr
    \/ Tick
    \/ OwnerChange

SpecProp == Init /\ [][NextProp]_vars

-----------------------------------------------------------------------------
(* SpecInf: reads of the properties that are cached for ever, UUID, which  *)
(* every proxy is made with, and parent_UUID, which a proxy made by a      *)
(* registration has to fetch.                                              *)

GetIdentity ==
    /\ \E p \in PropProxies, n \in {"UUID", "parent_UUID"} :
           Call("getattr", p, n, FALSE,
                __getattribute__(remote, nextUUID, proxies, p, n))
    /\ UNCHANGED <<subVars, pyVars, extVars>>

NextInf ==
    \/ PropRegisterManager
    \/ PropRegisterStream
    \/ PropRegisterObject
    \/ GetIdentity
    \/ Tick
    \/ OwnerChange

SpecInf == Init /\ [][NextInf]_vars

-----------------------------------------------------------------------------
(* SpecUnreg: a manager, a stream in it and an object in the stream are    *)
(* registered and unregistered.                                            *)

Unregister ==
    /\ \E p \in 1..Len(proxies), only_if_empty \in BOOLEAN, ret \in BOOLEAN :
           /\ proxies[p].kind = "object" => ~only_if_empty
           /\ UnregisterCall(p, only_if_empty,
                             unregister(remote, nextUUID, proxies, p,
                                        only_if_empty, ret))
    /\ UNCHANGED <<subVars, pyVars, extVars>>

NextUnreg ==
    \/ PropRegisterManager
    \/ PropRegisterStream
    \/ PropRegisterObject
    \/ Unregister
    \/ OwnerChange

SpecUnreg == Init /\ [][NextUnreg]_vars

-----------------------------------------------------------------------------
(* SpecSub: the feedback subscriptions of a manager's proxy. *)

SubRegisterManager ==
    /\ CanRegister(1, MaxProxies)
    /\ Call("manager_register", 0, "a", TRUE,
            manager_register(remote, nextUUID, proxies, "a", "A", TRUE))
    /\ UNCHANGED <<subVars, pyVars, extVars>>

FeedbackSubscribe ==
    /\ Len(log) < MaxLog
    /\ \E m \in Proxies("manager"), d \in BOOLEAN, fault \in 0..2 :
           SubCall("feedback_subscribe", m, IF d THEN 1 ELSE 0, d,
                   feedback_subscribe(subscriptions, nextHandle, proxies, m,
                                      d, fault))
    /\ UNCHANGED <<pyVars, extVars>>

FeedbackUnsubscribe ==
    /\ Len(log) < MaxLog
    /\ \E m \in Proxies("manager"), handle \in 0..2, fault \in 0..2 :
           SubCall("feedback_unsubscribe", m, handle, FALSE,
                   feedback_unsubscribe(subscriptions, nextHandle, proxies, m,
                                        handle, fault))
    /\ UNCHANGED <<pyVars, extVars>>

NextSub ==
    \/ SubRegisterManager
    \/ FeedbackSubscribe
    \/ FeedbackUnsubscribe

SpecSub == Init /\ [][NextSub]_vars

-----------------------------------------------------------------------------
(* SpecPy: an application that uses pywoodchuck.  When it starts, the      *)
(* service may have an owner or not, and may know a manager with the       *)
(* application's cookie from an earlier run.                               *)

Earlier(name) ==
    SrvAdd(<<>>, 1, "manager", Root, "a", name)

InitWorld ==
    /\ InitSub
    /\ InitPy
    /\ InitBus
    /\ InitUp
    /\ InitThreads
    /\ now = 0
    /\ owner \in BOOLEAN
    /\ remote \in {<<>>, Earlier("A"), Earlier("B")}
    /\ nextUUID = Cardinality(DOMAIN remote) + 1
    /\ proxies = <<>>
    /\ _managers = <<>>
    /\ _streams = <<>>
    /\ _objects = <<>>
    /\ result = NoCall

\* The classes an application derives from PyWoodchuck override none of the
\* callbacks, one of them, or all.  The application has set up its main
\* loop, and the bus answers the lookup of the owner.
Classes == {{}, {"stream_update_cb"}, Callbacks}

PyInit ==
    /\ pyw = "none"
    /\ nextUUID <= MaxUUID
    /\ \E t \in Threads, request \in BOOLEAN, hooks \in Classes,
          fault \in 0..1 :
           LET c == PyWoodchuck(remote, nextUUID, proxies, "A", "a")
               g == request_feedback(subscriptions, nextHandle, c.r.ps,
                                     c.manager, _woodchuck_owner, service,
                                     request /\ c.pyw # "failed", hooks,
                                     TRUE, FALSE, fault)
               raised == c.pyw = "failed" \/ g.s.status # "ok"
           IN  /\ pyw' = IF raised THEN "failed" ELSE c.pyw
               /\ manager' = IF raised THEN 0 ELSE c.manager
               /\ _pystreams' = <<>>
               /\ _pyobjects' = <<>>
               /\ UNCHANGED _singletons
               /\ _main_thread' = Guard(_main_thread, t)
               /\ remote' = c.r.rem
               /\ nextUUID' = c.r.nxt
               /\ proxies' = g.s.ps
               /\ subscriptions' = g.s.subs
               /\ nextHandle' = g.s.nh
               /\ log' = IF g.s.rpc = <<>> THEN log
                         ELSE Append(log, [op |-> "feedback_subscribe",
                                           arg |-> FALSE,
                                           ok |-> g.s.status = "ok"])
               /\ _woodchuck_owner' = g.u.tracked
               /\ exported' = g.u.exported
               /\ signals' = IF g.u.exported THEN Append(signals, service)
                             ELSE signals
               /\ result' = [Outcome("__init__", 0, "a", request,
                                     [c.r EXCEPT
                                         !.status = IF c.pyw = "failed"
                                                    THEN c.r.status
                                                    ELSE g.s.status,
                                         !.rpc = c.r.rpc \o g.s.rpc])
                                EXCEPT !.thread = t]
                             @@ [hooks |-> hooks]
    /\ UNCHANGED <<now, owner, _managers, _streams, _objects>>
    /\ UNCHANGED <<busVars, thrVars>>

Live == pyw \in {"unavailable", "registered", "found"}

PyAvailable ==
    /\ Live
    /\ \E t \in Threads :
           LET a == available(manager, _main_thread, t)
           IN  PyCall("available", t, "",
                      PyDone(a.status, remote, nextUUID, proxies, _pystreams,
                             a.val, <<>>))
    /\ UNCHANGED _main_thread

PyStreamRegister ==
    /\ Live
    /\ nextUUID <= MaxUUID
    /\ \E t \in Threads, id \in Cookies :
           PyCall("stream_register", t, id,
                  py_stream_register(remote, nextUUID, proxies, _pystreams,
                                     manager, _main_thread, t, id))
    /\ UNCHANGED _main_thread

PyGetItem ==
    /\ Live
    /\ \E t \in Threads, id \in Cookies :
           PyCall("__getitem__", t, id,
                  __getitem__(remote, nextUUID, proxies, _pystreams, manager,
                              _main_thread, t, id))
    /\ UNCHANGED _main_thread

PyLen ==
    /\ Live
    /\ \E t \in Threads :
           PyCall("__len__", t, "",
                  __len__(remote, nextUUID, proxies, _pystreams, manager,
                          _main_thread, t))
    /\ UNCHANGED _main_thread

PyStreamPropertyGet ==
    /\ Live
    /\ \E t \in Threads, id \in Cookies :
           PyCall("stream_property_get", t, id,
                  stream_property_get(remote, nextUUID, proxies, _pystreams,
                                      manager, _main_thread, t, id, "priority"))
    /\ UNCHANGED _main_thread

PyStreamPropertySet ==
    /\ Live
    /\ \E t \in Threads, id \in Cookies, v \in Priorities :
           PyCall("stream_property_set", t, id,
                  stream_property_set(remote, nextUUID, proxies, _pystreams,
                                      manager, _main_thread, t, id, "priority",
                                      v))
    /\ UNCHANGED _main_thread

NextPy ==
    \/ PyInit
    \/ PyAvailable
    \/ PyStreamRegister
    \/ PyGetItem
    \/ PyLen
    \/ PyStreamPropertyGet
    \/ PyStreamPropertySet
    \/ OwnerChange

SpecPy == InitWorld /\ [][NextPy]_vars

-----------------------------------------------------------------------------
(* SpecReg: an application that registers, looks up and unregisters        *)
(* streams and objects through pywoodchuck, and constructs its PyWoodchuck *)
(* again and again.  The service has an owner throughout; the application  *)
(* makes all its calls from one thread.                                    *)

InitReg ==
    /\ InitLL
    /\ InitSub
    /\ InitPy
    /\ InitBus
    /\ InitUp
    /\ InitThreads

\* The proxies the application holds: the manager of its instance, the
\* wrappers of its dicts and the instances the factory has made for it.
\* Python frees the others once the call has returned.
Referenced(mgr, streams, objs, singletons) ==
    ({mgr} \cup {streams[k] : k \in DOMAIN streams}
           \cup UNION {{objs[k][o] : o \in DOMAIN objs[k]} : k \in DOMAIN objs}
           \cup {singletons[k] : k \in DOMAIN singletons})
        \ {0}

\* Where proxy i is once only the proxies of L are left, 0 for one freed.
Moved(L, i) == IF i \in L THEN Cardinality({j \in L : j <= i}) ELSE 0

Collected(L, ps) ==
    [n \in 1..Cardinality(L) |-> ps[CHOOSE i \in L : Moved(L, i) = n]]

\* A call of a method of the PyWoodchuck instance that may touch the dict
\* of a stream.  proxy tells whether the call returns a proxy, args the
\* arguments to record besides name.
RegCallWith(op, name, args, r, objs, proxy) ==
    \E singletons \in {IF "singletons" \in DOMAIN r THEN r.singletons
                       ELSE _singletons} :
    \E L \in {Referenced(manager, r.streams, objs, singletons)} :
        /\ remote' = r.rem
        /\ nextUUID' = r.nxt
        /\ proxies' = Collected(L, r.ps)
        /\ manager' = Moved(L, manager)
        /\ _pystreams' = [k \in DOMAIN r.streams |-> Moved(L, r.streams[k])]
        /\ _pyobjects' = [k \in DOMAIN objs |->
                            [o \in DOMAIN objs[k] |-> Moved(L, objs[k][o])]]
        /\ _singletons' = [k \in DOMAIN singletons |->
                             Moved(L, singletons[k])]
        /\ result' = Outcome(op, 0, name, FALSE,
                             [r EXCEPT !.val = IF proxy THEN Moved(L, r.val)
                                                ELSE r.val])
                         @@ args
        /\ UNCHANGED <<now, owner, _managers, _streams, _objects>>
        /\ UNCHANGED <<_main_thread, pyw>>
        /\ UNCHANGED <<subVars, extVars>>

RegCall(op, name, object, r, objs, proxy) ==
    RegCallWith(op, name, [object |-> object], r, objs, proxy)

RegInit ==
    /\ CanRegister(MaxEntities, MaxProxies)
    /\ CanEnumerate("manager", Root, MaxProxies)
    /\ \E c \in {PyWoodchuck(remote, nextUUID, proxies, "A", "a")} :
       \E L \in {Referenced(c.manager, <<>>, <<>>, _singletons)} :
           /\ pyw' = c.pyw
           /\ manager' = Moved(L, c.manager)
           /\ _pystreams' = <<>>
           /\ _pyobjects' = <<>>
           /\ _singletons' = [k \in DOMAIN _singletons |->
                                Moved(L, _singletons[k])]
           /\ _main_thread' = Guard(_main_thread, 1)
           /\ remote' = c.r.rem
           /\ nextUUID' = c.r.nxt
           /\ proxies' = Collected(L, c.r.ps)
           /\ result' = Outcome("__init__", 0, "a", FALSE, c.r)
                            @@ [object |-> ""]
    /\ UNCHANGED <<now, owner, _managers, _streams, _objects>>
    /\ UNCHANGED <<subVars, extVars>>

RegStreamRegister ==
    /\ Live
    /\ CanRegister(MaxEntities, MaxProxies)
    /\ \E id \in Cookies :
       \E r \in {py_stream_register(remote, nextUUID, proxies, _pystreams,
                                    manager, _main_thread, 1, id)} :
           RegCall("stream_register", id, "", r, _pyobjects, TRUE)

RegStreamLookup ==
    /\ Live
    /\ Len(proxies) < MaxProxies
    /\ \E id \in Cookies :
       \E r \in {_stream_lookup(remote, nextUUID, proxies, _pystreams,
                                manager, _main_thread, 1, id)} :
           RegCall("_stream_lookup", id, "", r, _pyobjects, TRUE)

RegStreamUnregister ==
    /\ Live
    /\ Len(proxies) < MaxProxies
    /\ \E id \in Cookies, ret \in BOOLEAN :
       \E r \in {stream_unregister(remote, nextUUID, proxies, _pystreams,
                                   _pyobjects, manager, _main_thread, 1, id,
                                   ret)} :
           RegCall("stream_unregister", id, "", r, r.objects, FALSE)

RegLen ==
    /\ Live
    /\ \E r \in {__len__(remote, nextUUID, proxies, _pystreams, manager,
                         _main_thread, 1)} :
           RegCall("__len__", "", "", r, _pyobjects, FALSE)

RegObjectRegister ==
    /\ Live
    /\ CanRegister(MaxEntities, MaxProxies - 1)
    /\ \E id \in Cookies, object \in Cookies :
       \E r \in {py_object_register(remote, nextUUID, proxies, _pystreams,
                                    _pyobjects, manager, _main_thread, 1, id,
                                    object)} :
           RegCall("object_register", id, object, r, r.objects, TRUE)

RegObjectLookup ==
    /\ Live
    /\ Len(proxies) < MaxProxies - 1
    /\ \E id \in Cookies, object \in Cookies :
       \E r \in {py_object_lookup(remote, nextUUID, proxies, _pystreams,
                                  _pyobjects, manager, _main_thread, 1, id,
                                  object)} :
           RegCall("_object_lookup", id, object, r, r.objects, TRUE)

RegObjectUnregister ==
    /\ Live
    /\ Len(proxies) < MaxProxies - 1
    /\ \E id \in Cookies, object \in Cookies, ret \in BOOLEAN :
       \E r \in {object_unregister(remote, nextUUID, proxies, _pystreams,
                                   _pyobjects, manager, _main_thread, 1, id,
                                   object, ret)} :
           RegCall("object_unregister", id, object, r, r.objects, FALSE)

RegStreamLen ==
    /\ Live
    /\ Len(proxies) < MaxProxies
    /\ \E id \in Cookies :
       \E r \in {stream__len__(remote, nextUUID, proxies, _pystreams, manager,
                               _main_thread, 1, id)} :
           RegCall("stream__len__", id, "", r, _pyobjects, FALSE)

\* pywoodchuck.manager.stream_register (False, ...): the low-level layer
\* lets the application register a second stream with a cookie.  The
\* application drops the proxy it gets.
RegLowStream ==
    /\ Live
    /\ manager # 0
    /\ CanRegister(MaxEntities, MaxProxies)
    /\ \E id \in Cookies :
       \E l \in {stream_register(remote, nextUUID, proxies, manager, id, "A",
                                 FALSE)} :
           RegCall("low_stream_register", id, "",
                   PyDone(l.status, l.rem, l.nxt, proxies, _pystreams, 0,
                          l.rpc),
                   _pyobjects, FALSE)

\* pywoodchuck[id].llobject.object_register (False, ...), likewise.
RegLowObject ==
    /\ Live
    /\ CanRegister(MaxEntities, MaxProxies)
    /\ \E id \in DOMAIN _pystreams, object \in Cookies :
       \E l \in {object_register(remote, nextUUID, proxies, _pystreams[id],
                                 object, "A", FALSE)} :
           RegCall("low_object_register", id, object,
                   PyDone(l.status, l.rem, l.nxt, proxies, _pystreams, 0,
                          l.rpc),
                   _pyobjects, FALSE)

\* The application registers and unregisters streams.
NextReg ==
    \/ RegInit
    \/ RegStreamRegister
    \/ RegStreamLookup
    \/ RegStreamUnregister
    \/ RegLen
    \/ RegLowStream

SpecReg == InitReg /\ [][NextReg]_vars

\* The application looks up streams and objects, some of which the
\* low-level layer has registered twice.
NextLookup ==
    \/ RegInit
    \/ RegStreamLookup
    \/ RegObjectLookup
    \/ RegLowStream
    \/ RegLowObject

SpecLookup == InitReg /\ [][NextLookup]_vars

\* The application registers and unregisters the objects of its streams.
NextObj ==
    \/ RegInit
    \/ RegStreamRegister
    \/ RegLen
    \/ RegObjectRegister
    \/ RegObjectUnregister
    \/ RegStreamLen

SpecObj == InitReg /\ [][NextObj]_vars

\* pywoodchuck.object_register (id, object, ...), the identifiers of the
\* objects including the string cookie.
RenObjectRegister ==
    /\ Live
    /\ CanRegister(MaxEntities, MaxProxies - 1)
    /\ \E id \in Cookies, object \in {"a", "cookie"} :
       \E r \in {py_object_register(remote, nextUUID, proxies, _pystreams,
                                    _pyobjects, manager, _main_thread, 1, id,
                                    object)} :
           RegCall("object_register", id, object, r, r.objects, TRUE)

RenStream ==
    /\ Live
    /\ Len(proxies) < MaxProxies - 1
    /\ \E id \in Cookies, value \in Cookies :
       \E r \in {stream_set_cookie(remote, nextUUID, proxies, _pystreams,
                                   _pyobjects, manager, _main_thread, 1, id,
                                   value)} :
           RegCallWith("stream_set_cookie", id,
                       [object |-> "", value |-> value], r, r.objects, FALSE)

RenObject ==
    /\ Live
    /\ Len(proxies) < MaxProxies - 1
    /\ \E id \in Cookies, object \in {"a", "cookie"}, value \in Cookies :
       \E r \in {object_set_cookie(remote, nextUUID, proxies, _pystreams,
                                   _pyobjects, manager, _main_thread, 1, id,
                                   object, value)} :
           RegCallWith("object_set_cookie", id,
                       [object |-> object, value |-> value], r, r.objects,
                       FALSE)

\* The application gives its streams and objects new identifiers.
NextRen ==
    \/ RegInit
    \/ RegStreamRegister
    \/ RenObjectRegister
    \/ RenStream
    \/ RenObject

SpecRen == InitReg /\ [][NextRen]_vars

\* A call of a method of the stream pywoodchuck[id] that reports on an
\* object: g is the outcome of pywoodchuck[id], x that of the method.
XferCall(op, id, object, g, x) ==
    RegCallWith(op, id, [object |-> object, reported |-> x.reported],
                PyDone(x.status, x.rem, x.nxt, x.ps, g.streams, 0,
                       g.rpc \o x.rpc),
                WithObjects(_pyobjects, id, x.streams), FALSE)

\* pywoodchuck[id].object_transferred (object).
XferTransferred ==
    /\ Live
    /\ CanRegister(MaxEntities, MaxProxies - 1)
    /\ \E id \in Cookies, object \in Cookies :
       \E g \in {__getitem__(remote, nextUUID, proxies, _pystreams, manager,
                             _main_thread, 1, id)} :
           IF g.status # "ok"
           THEN RegCallWith("object_transferred", id,
                            [object |-> object, reported |-> <<>>], g,
                            _pyobjects, FALSE)
           ELSE \E x \in {object_transferred(remote, nextUUID, g.ps,
                                             ObjectsOf(_pyobjects, id), g.val,
                                             _main_thread, 1, object)} :
                    XferCall("object_transferred", id, object, g, x)

\* pywoodchuck[id].object_transfer_failed (object, FailureGone).
XferFailed ==
    /\ Live
    /\ CanRegister(MaxEntities, MaxProxies - 1)
    /\ \E id \in Cookies, object \in Cookies :
       \E g \in {__getitem__(remote, nextUUID, proxies, _pystreams, manager,
                             _main_thread, 1, id)} :
           IF g.status # "ok"
           THEN RegCallWith("object_transfer_failed", id,
                            [object |-> object, reported |-> <<>>], g,
                            _pyobjects, FALSE)
           ELSE \E x \in {object_transfer_failed(remote, nextUUID, g.ps,
                                                 ObjectsOf(_pyobjects, id),
                                                 g.val, _main_thread, 1,
                                                 object, FailureGone)} :
                    XferCall("object_transfer_failed", id, object, g, x)

\* The application reports the transfers of objects, some registered
\* before, through pywoodchuck or the low-level layer, and some not.
NextXfer ==
    \/ RegInit
    \/ RegStreamRegister
    \/ RegObjectRegister
    \/ RegLowObject
    \/ XferTransferred
    \/ XferFailed

SpecXfer == InitReg /\ [][NextXfer]_vars

\* pywoodchuck[id].objects_list (): the application keeps the list.
FacObjectsList ==
    /\ Live
    /\ Len(proxies) < MaxProxies
    /\ \E id \in Cookies :
       \E g \in {__getitem__(remote, nextUUID, proxies, _pystreams, manager,
                             _main_thread, 1, id)} :
           IF g.status # "ok"
           THEN RegCall("objects_list", id, "", g, _pyobjects, FALSE)
           ELSE \E x \in {objects_list(remote, nextUUID, g.ps, _singletons,
                                       g.val)} :
                    RegCall("objects_list", id, "",
                            PyDone(x.status, remote, nextUUID, x.ps,
                                   g.streams, x.val, g.rpc \o x.rpc)
                                @@ [singletons |-> x.singletons],
                            _pyobjects, FALSE)

\* The application drops its last reference to an instance of a list: the
\* entry of the WeakValueDictionary goes with the instance.
FacDrop ==
    /\ Live
    /\ \E identifier \in DOMAIN _singletons :
           RegCall("drop", identifier, "",
                   PyDone("ok", remote, nextUUID, proxies, _pystreams, 0,
                          <<>>)
                       @@ [singletons |-> Del(_singletons, identifier)],
                   _pyobjects, FALSE)

\* The application lists the objects of its streams again and again.
NextFac ==
    \/ RegInit
    \/ RegStreamRegister
    \/ RegObjectRegister
    \/ FacObjectsList
    \/ FacDrop

SpecFac == InitReg /\ [][NextFac]_vars

-----------------------------------------------------------------------------
(* SpecCall: outbound operations through one DBusIndirectObject while the  *)
(* service leaves the bus and comes back under new unique names.  The      *)
(* replies are whatever the service or the transport answers.              *)

\* The faults a name lookup on the bus ends in.
BindFaults ==
    {Bus("ServiceUnknown"), Bus("NoReply"), Bus("NameHasNoOwner")}

FaultNames ==
    {Wc("GenericError"), Wc("ObjectExists"), Wc("MethodNotImplemented"),
     Wc("InternalError"), Wc("InvalidArgs"), Wc("NoSuchObject"),
     <<"org", "woodchuck", "upcall", "GenericError">>,
     <<"org", "woodchuck">>, <<"org", "woodchuckd", "GenericError">>,
     Bus("ServiceUnknown"), Bus("NoReply"), Bus("UnknownMethod"),
     <<"org", "freedesktop", "DBus", "Error", "ServiceUnknown", "Spawn">>,
     NoName}

Replies == {Value(0)} \cup {Fault(n) : n \in FaultNames}

ServiceExit ==
    /\ owner
    /\ Len(signals) < MaxSignals
    /\ owner' = FALSE
    /\ signals' = IF exported THEN Append(signals, 0) ELSE signals
    /\ UNCHANGED <<busNames, real_object, _woodchuck_owner, exported>>
    /\ UNCHANGED <<now, remote, nextUUID, proxies, _managers, _streams,
                   _objects, result>>
    /\ UNCHANGED <<subVars, pyVars, thrVars>>

ServiceStart ==
    /\ busNames < MaxNames
    /\ Len(signals) < MaxSignals
    /\ busNames' = busNames + 1
    /\ owner' = TRUE
    /\ signals' = IF exported THEN Append(signals, busNames') ELSE signals
    /\ UNCHANGED <<real_object, _woodchuck_owner, exported>>
    /\ UNCHANGED <<now, remote, nextUUID, proxies, _managers, _streams,
                   _objects, result>>
    /\ UNCHANGED <<subVars, pyVars, thrVars>>

Outbound ==
    /\ \E first \in Replies, bindFault \in BindFaults, retry \in Replies :
          LET r == outbound(real_object, service, first, bindFault, retry)
          IN  /\ real_object' = r.real_object
              /\ result' = Outcome("call", 0, "", FALSE, r)
                             @@ [first |-> r.first, delivered |-> r.delivered,
                                 reraised |-> r.reraised]
    /\ UNCHANGED busNames
    /\ UNCHANGED <<now, owner, remote, nextUUID, proxies, _managers, _streams,
                   _objects>>
    /\ UNCHANGED <<subVars, pyVars, upVars, thrVars>>

NextCall == ServiceExit \/ ServiceStart \/ Outbound

SpecCall == Init /\ [][NextCall]_vars

-----------------------------------------------------------------------------
(* SpecUp: an application constructs Upcalls instances and the main loop   *)
(* delivers upcalls and owner notifications, while the service leaves the  *)
(* bus and comes back under new private names.                             *)

\* A peer on the bus that never owns org.woodchuck.
Stranger == MaxNames + 1

Senders == 1..MaxNames \cup {Stranger}

\* The watch asks for the current owner when it is installed; the answer is
\* delivered like the notifications that follow it.
UpcallsInit ==
    /\ Len(signals) < MaxSignals
    /\ \E main_loop \in BOOLEAN, timeout \in BOOLEAN :
          LET u == Upcalls(_woodchuck_owner, service, main_loop, timeout)
          IN  /\ _woodchuck_owner' = u.tracked
              /\ exported' = (exported \/ u.exported)
              /\ signals' = IF u.exported THEN Append(signals, service)
                            ELSE signals
              /\ result' = Outcome("Upcalls", 0, "", FALSE,
                                   [status |-> u.status, val |-> 0,
                                    refs |-> <<>>, rpc |-> <<>>])
                               @@ [main_loop |-> main_loop,
                                   timeout |-> timeout]
    /\ _main_thread' = Guard(_main_thread, 1)
    /\ UNCHANGED <<now, owner, remote, nextUUID, proxies, _managers, _streams,
                   _objects>>
    /\ UNCHANGED <<pyw, manager, _pystreams, _pyobjects, _singletons>>
    /\ UNCHANGED <<subVars, busVars, thrVars>>

\* The watch's callback: the main loop delivers the oldest notification.
OwnerNotify ==
    /\ signals # <<>>
    /\ _woodchuck_owner' = _woodchuck_owner_update(_woodchuck_owner,
                                                   Head(signals))
    /\ signals' = Tail(signals)
    /\ result' = Outcome("notify", Head(signals), "", FALSE,
                         [status |-> "ok", val |-> 0, refs |-> <<>>,
                          rpc |-> <<>>])
    /\ UNCHANGED exported
    /\ UNCHANGED <<now, owner, remote, nextUUID, proxies, _managers, _streams,
                   _objects>>
    /\ UNCHANGED <<subVars, pyVars, busVars, thrVars>>

\* A peer calls a method of org.woodchuck.upcall on the exported receiver.
Upcall ==
    /\ exported
    /\ \E which \in UpcallNames, sender \in Senders :
          LET u == upcall(which, sender, _woodchuck_owner)
          IN  result' = Outcome("upcall", sender, which, FALSE,
                                [status |-> u.status, val |-> 0,
                                 refs |-> <<>>, rpc |-> <<>>])
                          @@ [ack |-> u.ack, hook |-> u.hook]
    /\ UNCHANGED <<now, owner, remote, nextUUID, proxies, _managers, _streams,
                   _objects>>
    /\ UNCHANGED <<subVars, pyVars, busVars, upVars, thrVars>>

NextUp == UpcallsInit \/ OwnerNotify \/ Upcall \/ ServiceExit \/ ServiceStart

SpecUp == Init /\ [][NextUp]_vars

-----------------------------------------------------------------------------
(* SpecThreads: threads call guarded operations.  The wrapper of           *)
(* _check_main_thread reads _main_thread, then either writes it or reads   *)
(* it again for the assertion, then runs the body; a thread may be         *)
(* suspended between any two of these, and nothing orders them.            *)

Guarded(t, status) ==
    [Outcome("guarded", 0, "", FALSE,
             [status |-> status, val |-> 0, refs |-> <<>>, rpc |-> <<>>])
        EXCEPT !.thread = t]

\* "if _main_thread is None:"
Enter(t) ==
    /\ pc[t] = "idle"
    /\ pc' = [pc EXCEPT ![t] = IF _main_thread = 0 THEN "set" ELSE "assert"]
    /\ UNCHANGED <<_main_thread, ran, result>>

\* "_main_thread = threading.currentThread()"
SetMain(t) ==
    /\ pc[t] = "set"
    /\ _main_thread' = t
    /\ pc' = [pc EXCEPT ![t] = "body"]
    /\ UNCHANGED <<ran, result>>

\* "assert _main_thread == threading.currentThread()"
AssertMain(t) ==
    /\ pc[t] = "assert"
    /\ IF _main_thread = t
       THEN /\ pc' = [pc EXCEPT ![t] = "body"]
            /\ UNCHANGED result
       ELSE /\ pc' = [pc EXCEPT ![t] = "idle"]
            /\ result' = Guarded(t, "AssertionError")
    /\ UNCHANGED <<_main_thread, ran>>

\* "return f(*args, **kwargs)"
Body(t) ==
    /\ pc[t] = "body"
    /\ ran' = ran \cup {t}
    /\ pc' = [pc EXCEPT ![t] = "idle"]
    /\ result' = Guarded(t, "ok")
    /\ UNCHANGED _main_thread

\* What the wrapper does not touch.
Elsewhere ==
    /\ UNCHANGED <<now, owner, remote, nextUUID, proxies, _managers, _streams,
                   _objects>>
    /\ UNCHANGED <<pyw, manager, _pystreams, _pyobjects, _singletons>>
    /\ UNCHANGED <<subVars, busVars, upVars, jobVars>>

ThreadEnters == Elsewhere /\ \E t \in Callers : Enter(t)

ThreadSets == Elsewhere /\ \E t \in Callers : SetMain(t)

ThreadAsserts == Elsewhere /\ \E t \in Callers : AssertMain(t)

ThreadRuns == Elsewhere /\ \E t \in Callers : Body(t)

NextThreads == ThreadEnters \/ ThreadSets \/ ThreadAsserts \/ ThreadRuns

SpecThreads == Init /\ [][NextThreads]_vars

-----------------------------------------------------------------------------
(* SpecJobs: the job manager of apt-woodchuck.  The main thread creates    *)
(* jobs; each job runs in a thread of its own.  Job.running and Job.jobs   *)
(* are read and written under Job.lock only, so each block under the lock  *)
(* is one step.                                                            *)

\* Job.__init__, under the lock: the queue once job self with this key is
\* created.  A job whose key a queued job or the running job has is ignored.
enqueue(queue, marker, ks, self, key) ==
    LET js == IF marker # 0 THEN Append(queue, marker) ELSE queue
    IN  IF \E i \in 1..Len(js) : ks[js[i]] = key THEN queue
        ELSE Append(queue, self)

\* Job.scheduler, were it not to look at the running job.
scheduler_Unchecked(marker, queue) ==
    IF queue = <<>> THEN [running |-> marker, jobs |-> queue, job |-> 0]
    ELSE [running |-> Head(queue), jobs |-> Tail(queue), job |-> Head(queue)]

\* Job.scheduler, were it to take the job queued last.
scheduler_Last(marker, queue) ==
    IF marker # 0 THEN [running |-> marker, jobs |-> queue, job |-> 0]
    ELSE IF queue = <<>> THEN [running |-> 0, jobs |-> queue, job |-> 0]
    ELSE [running |-> queue[Len(queue)],
          jobs |-> SubSeq(queue, 1, Len(queue) - 1),
          job |-> queue[Len(queue)]]

\* Job.scheduler, under the lock: the running job and the queue it leaves,
\* and the job to start, 0 for none.
scheduler(marker, queue) ==
    IF marker # 0 THEN [running |-> marker, jobs |-> queue, job |-> 0]
    ELSE IF queue = <<>> THEN [running |-> 0, jobs |-> queue, job |-> 0]
    ELSE [running |-> Head(queue), jobs |-> Tail(queue), job |-> Head(queue)]

\* Where a thread is once it has left Job.scheduler.
Left(t) == IF t = Main THEN At("idle") ELSE At("done")

\* What the job manager does not touch.
Outside ==
    /\ UNCHANGED <<llVars, subVars, pyVars, busVars, upVars>>
    /\ UNCHANGED <<pc, ran>>

\* Job (key, func) on the main thread, up to the call of Job.scheduler.
Create(key) ==
    /\ jpc[Main].pc = "idle"
    /\ Len(keys) < MaxJobs
    /\ keys' = Append(keys, key)
    /\ jobs' = enqueue(jobs, running, keys', Len(keys) + 1, key)
    /\ jpc' = [jpc EXCEPT ![Main] = At("scheduler"),
                          ![Len(keys) + 1] = At("created")]
    /\ UNCHANGED <<running, started>>

\* Job.scheduler of thread t, the block under the lock.
Schedule(t) ==
    /\ jpc[t].pc = "scheduler"
    /\ \E r \in {scheduler(running, jobs)} :
           /\ running' = r.running
           /\ jobs' = r.jobs
           /\ jpc' = [jpc EXCEPT ![t] = IF r.job = 0 THEN Left(t)
                                        ELSE [pc |-> "start", job |-> r.job]]
    /\ UNCHANGED <<keys, started>>

\* "job.start()" of thread t: a thread may be started once.
Start(t) ==
    /\ jpc[t].pc = "start"
    /\ \E job \in {jpc[t].job} :
           IF jpc[job].pc = "created"
           THEN /\ jpc' = [jpc EXCEPT ![t] = Left(t), ![job] = At("started")]
                /\ started' = Append(started, job)
           ELSE /\ jpc' = [jpc EXCEPT ![t] = At("failed")]
                /\ UNCHANGED started
    /\ UNCHANGED <<running, jobs, keys>>

\* Job.run of job self: "assert self.__class__.running == self" under the
\* lock, then the job's function.
Run(self) ==
    /\ jpc[self].pc = "started"
    /\ jpc' = [jpc EXCEPT ![self] = IF running = self THEN At("func")
                                     ELSE At("failed")]
    /\ UNCHANGED <<running, jobs, keys, started>>

\* The function of job self returns or raises, and the finally clause of
\* Job.run clears the running job under the lock.
Finish(self) ==
    /\ jpc[self].pc = "func"
    /\ IF running = self
       THEN /\ running' = 0
            /\ jpc' = [jpc EXCEPT ![self] = At("scheduler")]
       ELSE /\ jpc' = [jpc EXCEPT ![self] = At("failed")]
            /\ UNCHANGED running
    /\ UNCHANGED <<jobs, keys, started>>

JobCreate == Outside /\ \E key \in Keys : Create(key)

JobSchedule == Outside /\ \E t \in {Main} \cup JobThreads : Schedule(t)

JobStart == Outside /\ \E t \in {Main} \cup JobThreads : Start(t)

JobRun == Outside /\ \E self \in JobThreads : Run(self)

JobFinish == Outside /\ \E self \in JobThreads : Finish(self)

NextJobs == JobCreate \/ JobSchedule \/ JobStart \/ JobRun \/ JobFinish

SpecJobs == Init /\ [][NextJobs]_vars

\* Every thread that can take a step takes one in the end, and the function
\* of every job terminates; the main thread need not create a job.
FairJobs ==
    /\ \A t \in {Main} \cup JobThreads :
           WF_vars(Outside /\ Schedule(t)) /\ WF_vars(Outside /\ Start(t))
    /\ \A self \in JobThreads :
           WF_vars(Outside /\ Run(self)) /\ WF_vars(Outside /\ Finish(self))

SpecJobsFair == Init /\ [][NextJobs]_vars /\ FairJobs

-----------------------------------------------------------------------------
(* Properties of the entity hierarchy (Spec). *)

RegisterOps == {"manager_register", "stream_register", "object_register"}
LookupOps == {"lookup_manager_by_cookie", "lookup_stream_by_cookie",
              "lookup_object_by_cookie"}
ListOps == {"list_managers", "list_streams", "list_objects"}

\* The kind of entity an operation registers or enumerates.
KindOf(op) ==
    CASE op \in {"manager_register", "lookup_manager_by_cookie", "list_managers"}
           -> "manager"
      [] op \in {"stream_register", "lookup_stream_by_cookie", "list_streams"}
           -> "stream"
      [] op \in {"object_register", "lookup_object_by_cookie", "list_objects"}
           -> "object"

\* The UUID of the entity the proxy self stands for (Root for _Woodchuck).
PathOf(self) == IF self = 0 THEN Root ELSE proxies[self].path

Stepped == result'.seq # result.seq

\* C1: at no time do two distinct live proxies stand for the same entity:
\* what list_* and lookup_*_by_cookie return for a UUID is the proxy the
\* application already holds for it.
C1_SingleProxyPerUUID ==
    \A p, q \in 1..Len(proxies) :
        (proxies[p].kind = proxies[q].kind /\ proxies[p].path = proxies[q].path)
            => p = q

\* C9: a registration with only_if_cookie_unique under a parent that has no
\* child with the cookie succeeds and leaves exactly one such child, with a
\* proxy for it; under a parent that already has one it raises
\* ObjectExistsError, registers nothing and creates no proxy.
C9_UniqueRegistration ==
    [][(Stepped /\ result'.op \in RegisterOps /\ result'.flag) =>
        LET kind == KindOf(result'.op)
            parent == PathOf(result'.self)
            before == SrvByCookie(remote, kind, parent, result'.name)
            after == SrvByCookie(remote', kind, parent, result'.name)
        IN  IF before = {}
            THEN /\ result'.status = "ok"
                 /\ after = {result'.val}
                 /\ Len(proxies') = Len(proxies) + 1
                 /\ proxies'[result'.refs[1]].path = result'.val
            ELSE /\ result'.status = "ObjectExistsError"
                 /\ remote' = remote
                 /\ proxies' = proxies
                 /\ result'.refs = <<>>]_vars

\* A stream registration was rejected: the manager has one stream with the
\* cookie, and the application holds one proxy for it.
C9_Witness ==
    /\ result.op = "stream_register"
    /\ result.flag
    /\ result.status = "ObjectExistsError"
    /\ Cardinality(SrvByCookie(remote, "stream", PathOf(result.self),
                               result.name)) = 1
    /\ Cardinality({p \in Proxies("stream") :
                       remote[proxies[p].path].cookie = result.name}) = 1

\* C10: a registration without only_if_cookie_unique succeeds whatever
\* children the parent has, and a lookup by cookie returns one proxy per
\* child of the parent with that cookie, each for a different UUID.
C10_DuplicateCookies ==
    [][Stepped =>
        LET kind == KindOf(result'.op)
            parent == PathOf(result'.self)
            before == SrvByCookie(remote, kind, parent, result'.name)
            after == SrvByCookie(remote', kind, parent, result'.name)
            refs == result'.refs
        IN  /\ (result'.op \in RegisterOps /\ ~result'.flag) =>
                   /\ result'.status = "ok"
                   /\ result'.val \notin before
                   /\ after = before \cup {result'.val}
            /\ result'.op \in LookupOps =>
                   /\ result'.status = "ok"
                   /\ Len(refs) = Cardinality(before)
                   /\ {proxies'[refs[i]].path : i \in 1..Len(refs)} = before
                   /\ \A i \in 1..Len(refs) : proxies'[refs[i]].kind = kind
                   /\ \A i, j \in 1..Len(refs) :
                          i # j => /\ refs[i] # refs[j]
                                   /\ proxies'[refs[i]].path
                                          # proxies'[refs[j]].path]_vars

\* A lookup on a manager returned two proxies for two streams that share
\* the cookie.
C10_Witness ==
    /\ result.op = "lookup_stream_by_cookie"
    /\ result.status = "ok"
    /\ Len(result.refs) = 2
    /\ proxies[result.refs[1]].path # proxies[result.refs[2]].path
    /\ \A i \in 1..2 :
           remote[proxies[result.refs[i]].path].cookie = result.name

-----------------------------------------------------------------------------
(* Properties of the property cache (SpecProp). *)

\* The cached entry of property n of proxy p is younger than n's TTL.
Fresh(p, n) ==
    /\ n \in DOMAIN proxies[p].properties
    /\ \/ property_map[n].inf
       \/ now - proxies[p].properties[n].t < property_map[n].t

\* C2: a read of a property whose cached value is younger than the
\* property's TTL returns that value without a remote call; any other read
\* issues exactly one remote Get and, when it succeeds, caches what it got
\* with the time of the read.  So two reads within the TTL issue one Get, and
\* a read once the TTL has elapsed since the last fetch issues another.
C2_TTLCache ==
    [][(Stepped /\ result'.op = "getattr") =>
        LET p == result'.self
            n == result'.name
        IN  IF Fresh(p, n)
            THEN /\ result'.rpc = <<>>
                 /\ result'.status = "ok"
                 /\ result'.val = proxies[p].properties[n].v
                 /\ proxies' = proxies
            ELSE /\ result'.rpc = <<"Get">>
                 /\ result'.status = "ok" =>
                        /\ n \in DOMAIN proxies'[p].properties
                        /\ proxies'[p].properties[n]
                               = [v |-> result'.val, t |-> now]]_vars

\* Two reads of a proxy's cookie in a row, the second made once the TTL had
\* elapsed since the first: the second fetched the value again.
C2_Witness ==
    /\ result.op = "getattr"
    /\ result.name = "cookie"
    /\ result.rpc = <<"Get">>
    /\ result.status = "ok"
    /\ result.prev.op = "getattr"
    /\ result.prev.status = "ok"
    /\ result.at - result.prev.at >= _ttl

\* C3: the read of p that directly follows a successful set of p to v, made
\* before p's TTL has elapsed since the set, returns v and issues no remote
\* Get.
C3_ReadAfterSet ==
    [][(/\ result.op = "setattr"
        /\ result.status = "ok"
        /\ Stepped
        /\ result'.op = "getattr"
        /\ result'.self = result.self
        /\ result'.name = result.name
        /\ now - result.at < property_map[result.name].t) =>
            /\ result'.status = "ok"
            /\ result'.val = result.val
            /\ result'.rpc = <<>>]_vars

\* The priority of an object's proxy was set to 1 and read back, both within
\* one TTL and while the service had no owner: the read returned 1.
C3_Witness ==
    /\ result.op = "getattr"
    /\ result.name = "priority"
    /\ proxies[result.self].kind = "object"
    /\ result.prev.op = "setattr"
    /\ result.prev.status = "ok"
    /\ result.at - result.prev.at < _ttl
    /\ result.status = "ok"
    /\ result.val = 1
    /\ result.rpc = <<>>
    /\ ~owner

\* C22: setting priority, whose wire type is UInt32, to a negative value
\* raises an error: no Set call is made, the service's value stays what it
\* was (it is not the negative value wrapped to an unsigned one), and the
\* proxy's cache, its entry for the property included, stays what it was.
C22_UnsignedRejected ==
    [][(/\ Stepped
        /\ result'.op = "setattr"
        /\ result'.name = "priority"
        /\ result'.val < 0) =>
            /\ result'.status = "OverflowError"
            /\ result'.rpc = <<>>
            /\ remote' = remote
            /\ proxies' = proxies]_vars

\* A negative priority has been refused to a proxy that has the priority
\* of its stream in its cache, while the service is there.
C22_Witness ==
    /\ result.op = "setattr"
    /\ result.val = -1
    /\ result.status = "OverflowError"
    /\ owner
    /\ proxies[result.self].kind = "stream"
    /\ proxies[result.self].path \in DOMAIN remote
    /\ "priority" \in DOMAIN proxies[result.self].properties

\* C33: a property with an infinite time to live (UUID, parent_UUID) that
\* the proxy was made with or has read once is served from the cache on
\* every later read, however much time has passed and whether or not the
\* service has an owner: the read makes no remote call.
C33_CachedForEver ==
    [][(/\ Stepped
        /\ result'.op = "getattr"
        /\ property_map[result'.name].inf
        /\ result'.name \in DOMAIN proxies[result'.self].properties) =>
            /\ result'.rpc = <<>>
            /\ result'.status = "ok"
            /\ result'.val = proxies[result'.self].properties[result'.name].v
            /\ proxies' = proxies]_vars

\* parent_UUID, fetched by an earlier read longer ago than _ttl, was read
\* again without a remote call while the service had no owner.
C33_Witness ==
    /\ result.op = "getattr"
    /\ result.name = "parent_UUID"
    /\ result.status = "ok"
    /\ result.rpc = <<>>
    /\ result.prev.op = "getattr"
    /\ result.prev.status = "ok"
    /\ now - proxies[result.self].properties.parent_UUID.t > _ttl
    /\ ~owner

\* C32: when the remote Get or Set of a property fails with a fault, the
\* translated error is raised and the cache of the proxy, the value and the
\* time of every entry, is as it was; the cache changes only with a remote
\* call that succeeded.
C32_CacheOnSuccess ==
    [][(Stepped /\ result'.op \in {"getattr", "setattr"}) =>
        /\ (result'.rpc # <<>> /\ ~owner) =>
               /\ result'.status = "WoodchuckUnavailableError"
               /\ proxies' = proxies
        /\ result'.status # "ok" => proxies' = proxies
        /\ proxies' # proxies =>
               /\ result'.status = "ok"
               /\ result'.rpc # <<>>
               /\ owner]_vars

\* A Set of a value other than the cached one has failed for want of an
\* owner of the service's name, and the cache still holds the old value.
C32_Witness ==
    /\ result.op = "setattr"
    /\ result.rpc = <<"Set">>
    /\ result.status = "WoodchuckUnavailableError"
    /\ ~owner
    /\ "priority" \in DOMAIN proxies[result.self].properties
    /\ proxies[result.self].properties.priority.v # result.val

-----------------------------------------------------------------------------
(* Properties of the feedback subscriptions (SpecSub). *)

Sub(idx) == [op |-> "feedback_subscribe", arg |-> idx, ok |-> TRUE]
Unsub(idx) == [op |-> "feedback_unsubscribe", arg |-> idx, ok |-> TRUE]

\* The number of entries e in the log.
Count(e) == Cardinality({i \in 1..Len(log) : log[i] = e})

\* Every call returned, and every subscription was given back: so far there
\* are as many unsubscribes of each scope as subscribes of it.
Matched ==
    /\ \A i \in 1..Len(log) : log[i].ok
    /\ \A idx \in {0, 1} : Count(Sub(idx)) = Count(Unsub(idx))

\* C4: once every subscribe has been matched by an unsubscribe of the same
\* scope, the service holds no subscription and the proxy's handle is
\* cleared.
C4_MatchedReleasesAll ==
    \A m \in Proxies("manager") :
        Matched =>
            /\ subscriptions = {}
            /\ proxies[m].feedback_subscription_handle = 0

\* C5: after subscribe(self), subscribe(self and descendents) and
\* unsubscribe(self and descendents) on a proxy without subscriptions, the
\* service holds exactly one subscription, for the manager alone, and it is
\* the one whose handle the proxy holds.
C5_Downgrade ==
    \A m \in Proxies("manager") :
        log = <<Sub(0), Sub(1), Unsub(1)>> =>
            /\ subscriptions
                   = {[handle |-> proxies[m].feedback_subscription_handle,
                       manager |-> proxies[m].path,
                       descendents_too |-> FALSE]}
            /\ proxies[m].feedback_subscriptions = <<1, 0>>

\* The three calls have been made, and the service holds one subscription.
C5_Witness ==
    /\ log = <<Sub(0), Sub(1), Unsub(1)>>
    /\ Cardinality(subscriptions) = 1
    /\ result.op = "feedback_unsubscribe"
    /\ result.rpc = <<"FeedbackSubscribe", "FeedbackUnsubscribe">>

\* The subscription of the service that proxy m holds the handle of.
Held(m) ==
    {x \in subscriptions : x.handle = proxies[m].feedback_subscription_handle}

\* C6: a feedback_subscribe on a proxy that holds a subscription of the
\* scope asked for, or of the broader scope, issues no remote call, leaves
\* the handle and the service's subscriptions alone and changes only the
\* counter of the scope asked for, by one.
C6_SharedSubscription ==
    [][(/\ Stepped
        /\ result'.op = "feedback_subscribe"
        /\ \E x \in Held(result'.self) : result'.flag => x.descendents_too) =>
            LET m == result'.self
                idx == IF result'.flag THEN 1 ELSE 0
            IN  /\ result'.status = "ok"
                /\ result'.rpc = <<>>
                /\ subscriptions' = subscriptions
                /\ proxies'
                       = [proxies EXCEPT
                              ![m].feedback_subscriptions[idx + 1] = @ + 1]]_vars

\* A subscription to the manager alone was asked for while the proxy held
\* one that includes the descendents: no remote call was made.
C6_Witness ==
    /\ result.op = "feedback_subscribe"
    /\ result.status = "ok"
    /\ ~result.flag
    /\ result.rpc = <<>>
    /\ \E x \in Held(result.self) : x.descendents_too
    /\ proxies[result.self].feedback_subscriptions[1] > 0

\* The subscriptions the service holds for the manager of proxy m.
Active(subs, m) == {x \in subs : x.manager = proxies[m].path}

Unsubscribing == Stepped /\ result'.op = "feedback_unsubscribe"

\* C26: a feedback_unsubscribe of a scope whose counter is above 0 lowers
\* that counter by exactly one and leaves the other counter as it was,
\* whatever the two counters are.
C26_Decrements ==
    [][(/\ Unsubscribing
        /\ result'.status = "ok"
        /\ result'.val \in {0, 1}) =>
            LET m == result'.self
                fs == proxies[m].feedback_subscriptions
            IN  fs[result'.val + 1] > 0 =>
                    proxies'[m].feedback_subscriptions
                        = [fs EXCEPT ![result'.val + 1] = @ - 1]]_vars

\* C27: a manager's proxy stores a handle if and only if its two counters
\* sum to more than 0, and neither counter is negative.
C27_HandleIffCounted ==
    \A m \in Proxies("manager") :
        LET fs == proxies[m].feedback_subscriptions
        IN  /\ fs[1] >= 0
            /\ fs[2] >= 0
            /\ proxies[m].feedback_subscription_handle # 0 <=> fs[1] + fs[2] > 0

\* The last subscription has been given back: the handle is cleared and
\* both counters are 0 again.
C27_Witness ==
    /\ result.op = "feedback_unsubscribe"
    /\ result.status = "ok"
    /\ result.rpc = <<"FeedbackUnsubscribe">>
    /\ proxies[result.self].feedback_subscription_handle = 0
    /\ proxies[result.self].feedback_subscriptions = <<0, 0>>

Known(subs, old, new) == {x \in subs : x.handle \in {old, new}}

C30_NoLeak ==
    \A m \in Proxies("manager") :
        /\ Active(subscriptions, m) = Held(m)
        /\ Cardinality(Held(m))
              = IF proxies[m].feedback_subscription_handle = 0 THEN 0 ELSE 1

\* C34: no outbound operation lets a fault of the remote call reach its
\* caller as the raw exception of the bus library: feedback_subscribe and
\* feedback_unsubscribe, like the others, raise one of the typed errors.
C34_NoRawFault ==
    result.op \in {"feedback_subscribe", "feedback_unsubscribe"} =>
        result.status # "DBusException"

\* C31: feedback_unsubscribe for a scope whose counter is 0, be it on a
\* manager that was never subscribed, is rejected as an error of the caller:
\* it makes no remote call and leaves both counters, the handle and the
\* service's subscriptions as they were.
C31_UnmatchedRejected ==
    [][(/\ Unsubscribing
        /\ result'.val \in {0, 1}
        /\ proxies[result'.self].feedback_subscriptions[result'.val + 1] = 0)
       => /\ result'.status = "AssertionError"
          /\ result'.rpc = <<>>
          /\ proxies' = proxies
          /\ subscriptions' = subscriptions]_vars

\* An unsubscribe of the broad scope was rejected on a manager that holds a
\* subscription for itself only.
C31_Witness ==
    /\ result.op = "feedback_unsubscribe"
    /\ result.val = 1
    /\ result.status = "AssertionError"
    /\ proxies[result.self].feedback_subscriptions = <<1, 0>>
    /\ proxies[result.self].feedback_subscription_handle # 0

-----------------------------------------------------------------------------
(* Properties of the PyWoodchuck instance (SpecPy). *)

\* C7: a PyWoodchuck constructed while the service has no owner is
\* constructed without an error and has no manager; from then on available()
\* returns False and raises nothing, whichever thread calls it and whatever
\* has become of the service since.
C7_AvailableFalse ==
    [][Stepped =>
        /\ (result'.op = "__init__" /\ ~owner) =>
               /\ result'.status = "ok"
               /\ pyw' = "unavailable"
               /\ manager' = 0
        /\ (result'.op = "available" /\ pyw = "unavailable") =>
               /\ result'.status = "ok"
               /\ result'.val = FALSE]_vars

\* available() has returned False to a thread other than the one that
\* constructed the instance, after the service got an owner.
C7_Witness ==
    /\ pyw = "unavailable"
    /\ result.op = "available"
    /\ result.status = "ok"
    /\ result.val = FALSE
    /\ _main_thread # 0
    /\ result.thread # _main_thread
    /\ owner

\* C8: every operation other than available() of a PyWoodchuck that was
\* constructed while the service had no owner raises
\* WoodchuckUnavailableError.
C8_UnavailableError ==
    (pyw = "unavailable" /\ result.op \notin {"__init__", "available"}) =>
        result.status = "WoodchuckUnavailableError"

-----------------------------------------------------------------------------
(* Properties of unregistration (SpecUnreg). *)

\* The step is an unregister of a proxy whose entity the service knows,
\* made while the service has an owner.
Unregistering ==
    /\ Stepped
    /\ result'.op = "unregister"
    /\ owner
    /\ proxies[result'.self].path \in DOMAIN remote

-----------------------------------------------------------------------------
(* Properties of the outbound calls (SpecCall). *)

\* The last call was an outbound operation that ended in a fault.
Faulted == result.op = "call" /\ ~result.delivered.ok

HasPrefix(n) == Len(n) >= 3 /\ SubSeq(n, 1, 2) = <<"org", "woodchuck">>

Named ==
    {Wc("GenericError"), Wc("ObjectExists"), Wc("MethodNotImplemented"),
     Wc("InternalError"), Wc("InvalidArgs")}

Unavailability == {Bus("ServiceUnknown"), Bus("NoReply")}

\* C13: the translator never returns normally, and the fault name decides
\* what it raises: GenericError, ObjectExists, MethodNotImplemented,
\* InternalError and InvalidArgs of the org.woodchuck namespace raise
\* GenericError, ObjectExistsError, NotImplementedError, InternalError and
\* InvalidArgsError; every other name with the prefix "org.woodchuck." raises
\* UnknownError; ServiceUnknown and NoReply raise WoodchuckUnavailableError.
C13_Taxonomy ==
    Faulted =>
        LET n == result.delivered.dbus_name
        IN  /\ result.status # "ok"
            /\ n = Wc("GenericError") => result.status = "GenericError"
            /\ n = Wc("ObjectExists") => result.status = "ObjectExistsError"
            /\ n = Wc("MethodNotImplemented")
                  => result.status = "NotImplementedError"
            /\ n = Wc("InternalError") => result.status = "InternalError"
            /\ n = Wc("InvalidArgs") => result.status = "InvalidArgsError"
            /\ (HasPrefix(n) /\ n \notin Named)
                  => result.status = "UnknownError"
            /\ n \in Unavailability
                  => result.status = "WoodchuckUnavailableError"

\* A fault of the namespace that has no exception of its own, and one of
\* org.woodchuck.upcall, have been translated.
C13_Witness ==
    /\ Faulted
    /\ result.delivered.dbus_name
          = <<"org", "woodchuck", "upcall", "GenericError">>
    /\ result.status = "UnknownError"

Occurrences(trace, e) == Cardinality({i \in 1..Len(trace) : trace[i] = e})

\* C15: one call through the proxy invokes the remote method at most twice
\* and rebinds the handle at most once; it rebinds and retries only after the
\* first invocation failed with ServiceUnknown; the outcome of the retry,
\* fault or not, is the outcome of the call.
C15_AtMostOneRebind ==
    result.op = "call" =>
        /\ Occurrences(result.rpc, "invoke") <= 2
        /\ Occurrences(result.rpc, "bind") <= 1
        /\ result.rpc[1] = "invoke"
        /\ Len(result.rpc) > 1 =>
              /\ ~result.first.ok
              /\ result.first.dbus_name = Bus("ServiceUnknown")
              /\ result.rpc[2] = "bind"
        /\ Len(result.rpc) > 2 => result.rpc = <<"invoke", "bind", "invoke">>

\* The retry failed as the first invocation had, and that fault surfaced.
C15_Witness ==
    /\ result.op = "call"
    /\ result.rpc = <<"invoke", "bind", "invoke">>
    /\ ~result.delivered.ok
    /\ result.delivered.dbus_name = Bus("ServiceUnknown")
    /\ result.status = "WoodchuckUnavailableError"

Unavailable == result.op = "call" /\ result.status = "WoodchuckUnavailableError"

-----------------------------------------------------------------------------
(* Properties of the upcalls (SpecUp). *)

Dispatched == Stepped /\ result'.op = "upcall"

C35_Construction ==
    [][(/\ Stepped
        /\ result'.op = "Upcalls"
        /\ result'.main_loop
        /\ ~result'.timeout) =>
          /\ service = 0 =>
                /\ result'.status = "WoodchuckUnavailableError"
                /\ _woodchuck_owner' = _woodchuck_owner
          /\ service # 0 =>
                /\ result'.status = "ok"
                /\ _woodchuck_owner' = service]_vars

C35_Witness ==
    /\ result.op = "Upcalls"
    /\ result.main_loop
    /\ ~result.timeout
    /\ result.status = "WoodchuckUnavailableError"
    /\ service = 0
    /\ _woodchuck_owner = None

C35_WitnessOwned ==
    /\ result.op = "Upcalls"
    /\ result.status = "ok"
    /\ service # 0
    /\ _woodchuck_owner = service


\* C18: the tracked name is the owner most recently reported.  A
\* construction of Upcalls whose lookup succeeds sets it to the owner looked
\* up; the delivery of a notification with new owner N sets it to N; nothing
\* else changes it; and an upcall is accepted if and only if its sender is
\* the tracked name, so that after a notification upcalls of N are accepted
\* and those of the owner before are not.
C18_TracksOwner ==
    [][/\ (Stepped /\ result'.op = "Upcalls" /\ result'.status = "ok")
             => _woodchuck_owner' = service
       /\ (Stepped /\ result'.op = "notify")
             => _woodchuck_owner' = Head(signals)
       /\ ~(Stepped /\ result'.op \in {"Upcalls", "notify"})
             => _woodchuck_owner' = _woodchuck_owner
       /\ Dispatched
             => (result'.hook <=> result'.self = _woodchuck_owner)]_vars

\* The service has come back under a second name, the notification has been
\* delivered, and an upcall of the new owner has been accepted.
C18_Witness ==
    /\ result.op = "upcall"
    /\ result.hook
    /\ result.self = 2
    /\ _woodchuck_owner = 2
    /\ signals = <<>>

-----------------------------------------------------------------------------
(* Properties of the feedback a PyWoodchuck instance asks for (SpecPy). *)

\* PyWoodchuck.__init__ has just returned an instance.
Constructed == Stepped /\ result'.op = "__init__" /\ pyw' # "failed"

\* C19: an instance whose class overrides none of the four callbacks, or
\* that is constructed with request_feedback false, asks the service for no
\* subscription and exports no receiver of upcalls; an instance whose class
\* overrides a callback, constructed with request_feedback true while the
\* service is available, asks for exactly one subscription, on its manager
\* and without descendents.
C19_FeedbackOnDemand ==
    [][Constructed =>
          /\ (~result'.flag \/ result'.hooks = {}) =>
                /\ Occurrences(result'.rpc, "FeedbackSubscribe") = 0
                /\ subscriptions' = subscriptions
                /\ ~exported'
          /\ (result'.flag /\ result'.hooks # {} /\ owner) =>
                /\ Occurrences(result'.rpc, "FeedbackSubscribe") = 1
                /\ \E x \in subscriptions' :
                      /\ subscriptions' = subscriptions \cup {x}
                      /\ x \notin subscriptions
                      /\ x.manager = proxies'[manager'].path
                      /\ ~x.descendents_too]_vars

\* An instance of a class that overrides one callback has subscribed.
C19_Witness ==
    /\ result.op = "__init__"
    /\ result.flag
    /\ result.hooks = {"stream_update_cb"}
    /\ pyw = "registered"
    /\ exported
    /\ Cardinality(subscriptions) = 1

-----------------------------------------------------------------------------
(* Properties of the thread guard (SpecThreads). *)

\* C20: once _main_thread is set it never changes; a thread is let into a
\* guarded body only if it is the recorded thread, every other thread failing
\* its assertion first; so at most one thread, the one the first guarded
\* call recorded, ever executes a guarded body, however the threads'
\* calls interleave.
C20_SingleThread ==
    [][/\ _main_thread # 0 => _main_thread' = _main_thread
       /\ \A t \in Callers : pc'[t] = "body" => _main_thread' = t
       /\ Cardinality(ran') <= 1]_vars

-----------------------------------------------------------------------------
(* Properties of the lookups of pywoodchuck (SpecLookup). *)

\* The step is a lookup of a stream the dict of the instance does not hold.
StreamLookup ==
    /\ Stepped
    /\ result'.op = "_stream_lookup"
    /\ result'.name \notin DOMAIN _pystreams

\* The step is a lookup, in a stream whose wrapper the instance holds, of an
\* object the dict of the stream does not hold.
ObjectLookup ==
    /\ Stepped
    /\ result'.op = "_object_lookup"
    /\ result'.name \in DOMAIN _pystreams
    /\ result'.object \notin DOMAIN ObjectsOf(_pyobjects, result'.name)

\* The entities the service finds for the lookup of the step.
Found ==
    IF result'.op = "_stream_lookup"
    THEN SrvByCookie(remote, "stream", proxies[manager].path, result'.name)
    ELSE SrvByCookie(remote, "object", proxies[_pystreams[result'.name]].path,
                     result'.object)

\* C21: a lookup by cookie, on the PyWoodchuck instance or on a stream, of a
\* cookie the local dict does not hold returns the proxy of the one entity
\* the service finds, which enters the dict; it raises InternalError when
\* the service finds more than one and NoSuchObject when it finds none, and
\* then the local dicts are as they were.
C21_Lookup ==
    [][(StreamLookup \/ ObjectLookup) =>
        /\ Cardinality(Found) = 1 =>
               /\ result'.status = "ok"
               /\ result'.val \in DOMAIN proxies'
               /\ proxies'[result'.val].path \in Found
               /\ StreamLookup => _pystreams'[result'.name] = result'.val
               /\ ObjectLookup =>
                      _pyobjects'[result'.name][result'.object] = result'.val
        /\ Cardinality(Found) > 1 =>
               /\ result'.status = "InternalError"
               /\ _pystreams' = _pystreams
               /\ _pyobjects' = _pyobjects
        /\ Cardinality(Found) = 0 =>
               /\ result'.status = "NoSuchObject"
               /\ _pystreams' = _pystreams
               /\ _pyobjects' = _pyobjects]_vars

\* A lookup in a stream has raised InternalError: the service knows two
\* objects of the stream with the cookie, and the dict of the stream holds
\* neither.
C21_Witness ==
    /\ result.op = "_object_lookup"
    /\ result.status = "InternalError"
    /\ result.name \in DOMAIN _pystreams
    /\ result.object \notin DOMAIN ObjectsOf(_pyobjects, result.name)
    /\ Cardinality(SrvByCookie(remote, "object",
                               proxies[_pystreams[result.name]].path,
                               result.object)) = 2

-----------------------------------------------------------------------------
(* Properties of the streams of a PyWoodchuck instance (SpecReg). *)

\* The managers the service knows under the application's cookie.
Managers(rem) == SrvByCookie(rem, "manager", Root, "a")

\* C23: constructing PyWoodchuck with one human_readable_name and one
\* dbus_service_name again and again is idempotent.  The first construction
\* registers one top-level manager with the cookie; every later one binds to
\* that manager, the one with the same UUID, registers nothing and raises
\* nothing.
C23_Idempotent ==
    [][(Stepped /\ result'.op = "__init__") =>
        /\ result'.status = "ok"
        /\ manager' # 0
        /\ Cardinality(Managers(remote')) = 1
        /\ proxies'[manager'].path \in Managers(remote')
        /\ Managers(remote) = {} => pyw' = "registered"
        /\ Managers(remote) # {} =>
               /\ remote' = remote
               /\ nextUUID' = nextUUID
               /\ proxies'[manager'].path \in Managers(remote)
               /\ manager # 0 =>
                      proxies'[manager'].path = proxies[manager].path]_vars

\* The application has constructed its PyWoodchuck anew after it had
\* registered a stream through an earlier one; the new instance found the
\* manager.
C23_Witness ==
    /\ result.op = "__init__"
    /\ result.status = "ok"
    /\ pyw = "found"
    /\ manager # 0
    /\ SrvChildren(remote, "stream", proxies[manager].path) # {}

\* The streams of the instance's manager the service knows under cookie id.
StreamsNamed(rem, id) ==
    SrvByCookie(rem, "stream", proxies[manager].path, id)

-----------------------------------------------------------------------------
(* Properties of the objects of a PyWoodchuck instance (SpecObj). *)

\* The objects the service knows in the streams of the instance's manager
\* that have cookie id.
ObjectsIn(rem, id) ==
    UNION {SrvChildren(rem, "object", s) : s \in StreamsNamed(rem, id)}

\* The objects with cookie object that the service knows in those streams.
ObjectsNamed(rem, id, object) ==
    {o \in ObjectsIn(rem, id) : rem[o].cookie = object}

-----------------------------------------------------------------------------
(* Properties of the identifiers of streams and objects (SpecRen). *)

\* C36: assigning a new cookie c2 to a stream or object that its containing
\* map holds under c1 completes without error, writes c2 through to the
\* service, and leaves the map with c2 for that same proxy and no entry for
\* c1 (unless c2 is c1).
C36_Rename ==
    [][Stepped =>
        /\ (result'.op = "stream_set_cookie"
              /\ result'.name \in DOMAIN _pystreams) =>
               /\ result'.status = "ok"
               /\ result'.value \in DOMAIN _pystreams'
               /\ proxies'[_pystreams'[result'.value]].path =
                      proxies[_pystreams[result'.name]].path
               /\ remote'[proxies[_pystreams[result'.name]].path].cookie =
                      result'.value
               /\ result'.value # result'.name =>
                      result'.name \notin DOMAIN _pystreams'
        /\ (result'.op = "object_set_cookie"
              /\ result'.name \in DOMAIN _pyobjects
              /\ result'.object \in DOMAIN _pyobjects[result'.name]) =>
               /\ result'.status = "ok"
               /\ result'.name \in DOMAIN _pyobjects'
               /\ result'.value \in DOMAIN _pyobjects'[result'.name]
               /\ proxies'[_pyobjects'[result'.name][result'.value]].path =
                      proxies[_pyobjects[result'.name][result'.object]].path
               /\ remote'[proxies[_pyobjects[result'.name][result'.object]]
                              .path].cookie = result'.value
               /\ result'.value # result'.object =>
                      result'.object \notin DOMAIN _pyobjects'[result'.name]
      ]_vars

-----------------------------------------------------------------------------
(* Properties of the transfer reports of a stream (SpecXfer). *)

Reporting ==
    /\ Stepped
    /\ result'.op \in {"object_transferred", "object_transfer_failed"}
    /\ StreamsNamed(remote, result'.name) # {}

\* The status that the call reports.
Code(op) == IF op = "object_transferred" THEN Success ELSE FailureGone

\* C37: object_transferred (id) and object_transfer_failed (id) of a stream
\* report exactly one transfer status, for the object with cookie id: when
\* the stream has no object with that cookie they first register it exactly
\* once, human_readable_name being id, and when it has one they register
\* nothing.
C37_ReportOnce ==
    [][Reporting =>
        LET before == ObjectsNamed(remote, result'.name, result'.object)
            after == ObjectsNamed(remote', result'.name, result'.object)
        IN  /\ before = {} =>
                  /\ result'.status = "ok"
                  /\ Occurrences(result'.rpc, "ObjectRegister") = 1
                  /\ Cardinality(after) = 1
                  /\ DOMAIN remote' = DOMAIN remote \cup after
                  /\ \A u \in after : remote'[u].name = result'.object
                  /\ \A u \in DOMAIN remote : remote'[u] = remote[u]
                  /\ Len(result'.reported) = 1
                  /\ result'.reported[1][1] \in after
                  /\ result'.reported[1][2] = Code(result'.op)
                  /\ Occurrences(result'.rpc, "TransferStatus") = 1
            /\ Cardinality(before) = 1 =>
                  /\ result'.status = "ok"
                  /\ remote' = remote
                  /\ Occurrences(result'.rpc, "ObjectRegister") = 0
                  /\ Len(result'.reported) = 1
                  /\ result'.reported[1][1] \in before
                  /\ result'.reported[1][2] = Code(result'.op)
                  /\ Occurrences(result'.rpc, "TransferStatus") = 1]_vars

\* An object_transfer_failed has registered the object and reported on it.
C37_Witness ==
    /\ result.op = "object_transfer_failed"
    /\ result.status = "ok"
    /\ Occurrences(result.rpc, "ObjectRegister") = 1
    /\ Len(result.reported) = 1

\* An object_transferred has reported on an object registered before.
C37_WitnessRegistered ==
    /\ result.op = "object_transferred"
    /\ result.status = "ok"
    /\ Occurrences(result.rpc, "ObjectRegister") = 0
    /\ Len(result.reported) = 1

-----------------------------------------------------------------------------
(* Properties of the object factory (SpecFac). *)

\* The remote object that is the llobject of the live instance of k.
InstanceOf(ps, singletons, k) == ps[singletons[k]].path

\* C38: objects_list () of a registered stream returns without error one
\* instance per object the service lists, each the live instance of its
\* identifier; an identifier that had a live instance keeps that instance.
C38_Singletons ==
    [][(/\ Stepped
        /\ result'.op = "objects_list"
        /\ Cardinality(StreamsNamed(remote, result'.name)) = 1) =>
          /\ result'.status = "ok"
          /\ result'.val = Cardinality(ObjectsIn(remote, result'.name))
          /\ \A u \in ObjectsIn(remote, result'.name) :
                 remote[u].cookie \in DOMAIN _singletons'
          /\ \A k \in DOMAIN _singletons :
                 /\ k \in DOMAIN _singletons'
                 /\ InstanceOf(proxies', _singletons', k) =
                        InstanceOf(proxies, _singletons, k)]_vars

-----------------------------------------------------------------------------
(* Properties of the job manager of apt-woodchuck (SpecJobs). *)

\* The jobs whose thread is in Job.run, before the function or in it.
Executing == {j \in JobThreads : jpc[j].pc \in {"started", "func"}}

\* At most one job executes, the running job; no assert of Job.run fails;
\* the job a thread is about to start is the running job.
OneJob ==
    /\ Cardinality(Executing) <= 1
    /\ \A j \in Executing : running = j
    /\ \A t \in {Main} \cup JobThreads :
           /\ jpc[t].pc # "failed"
           /\ jpc[t].pc = "start" =>
                  /\ running = jpc[t].job
                  /\ Executing = {}

\* C39: whatever the interleaving of the main thread, which creates jobs,
\* and of the threads of the jobs, at most one job is executing at any time:
\* a job becomes the running job, and is then started, only when no job is
\* running, and the running job is always the job whose thread executes.
C39_OneJob ==
    /\ []OneJob
    /\ [][(running' # running /\ running' # 0) =>
              (running = 0 /\ Executing = {})]_vars

\* A job executes while the thread of the job before it has yet to leave
\* Job.scheduler and a third job is queued.
C39_Witness ==
    /\ \E j \in JobThreads : jpc[j].pc = "func" /\ running = j
    /\ \E j \in JobThreads : jpc[j].pc = "scheduler"
    /\ jobs # <<>>

Queue(j) == \E i \in 1..Len(jobs) : jobs[i] = j

Started(j) == \E i \in 1..Len(started) : started[i] = j

\* Jobs are numbered as they are created, so the order of the queue is the
\* order of the numbers.
Fifo(q) == \A i, k \in 1..Len(q) : i < k => q[i] < q[k]

\* C40: the queued jobs are started in the order in which they were queued;
\* while the queue is not empty, a job is running or a thread is about to
\* call Job.scheduler; and every queued job is started in the end.
C40_Fifo ==
    /\ [](Fifo(started) /\ Fifo(jobs))
    /\ []((jobs # <<>> /\ running = 0) =>
             \E t \in {Main} \cup JobThreads : jpc[t].pc = "scheduler")
    /\ \A j \in JobThreads : Queue(j) ~> Started(j)

\* Three jobs were created and started: the first is done, the third
\* executes.
C40_Witness ==
    /\ Len(started) >= 3
    /\ jpc[1].pc = "done"
    /\ jpc[3].pc = "func"
    /\ Len(keys) = 3

====
